---- MODULE Spec2Model ----
(***************************************************************************)
(* trench: Git worktree manager.                                           *)
(*                                                                         *)
(* These state machines share this module:                                 *)
(*   SpecHook  the hook engine: one hook (copy -> run -> shell) whose run   *)
(*             and shell steps are execute_run_step of hooks/run.rs, with  *)
(*             the child process, its two pipes and the select loop that   *)
(*             drains them;                                                *)
(*   Spec      the create / remove commands over the Git repository, the   *)
(*             file system and the state store;                            *)
(*   SpecStore the state store (state/queries.rs) called operation by      *)
(*             operation on one open Database;                             *)
(*   SpecOpen  Database::open on a file another build may have migrated;   *)
(*   SpecList  trench list over a store and a repository that also has     *)
(*             worktrees made with git alone;                              *)
(*   SpecTag   the tags of the store, call by call;                        *)
(*   SpecResolve, SpecCopy, SpecAheadBehind                                *)
(*             one call of create_worktree's base resolution, of the copy  *)
(*             step and of ahead_behind on every input of a bounded set.   *)
(***************************************************************************)
EXTENDS Integers, Sequences, FiniteSets, TLC

\* ------------------------------------------------------------------------
\* Bounds of the model
\* ------------------------------------------------------------------------

\* longest `run` list of a hook
MaxCmds == 2

\* most lines one command writes to its two pipes together
MaxWrites == 2

\* lines a pipe holds before a further write blocks
PipeCap == 1

\* commands run one after the other
MaxOps == 3

\* changes somebody else makes on the remote meanwhile
MaxEnv == 1

\* calls made on the Database one after the other
MaxDbCalls == 4

\* seconds that pass while the model runs
MaxTicks == 1

\* ------------------------------------------------------------------------
\* Hook engine: values
\* ------------------------------------------------------------------------

\* the i-th command string of a `run` list
RunCommand(i) == << "run", i >>

\* a `run` list of n command strings
RunList(n) == [i \in 1..n |-> RunCommand(i)]

\* the inline script of a hook's `shell` field
ShellScript == << "shell", 0 >>

NoCommand == << "none", 0 >>

Streams == {"stdout", "stderr"}

\* std::process::ExitStatus: an exit code, or termination by a signal
ExitStatuses ==
    { [signalled |-> FALSE, code |-> 0],
      [signalled |-> FALSE, code |-> 1],
      [signalled |-> TRUE,  code |-> 0] }

\* status.code().unwrap_or(-1)
ExitCode(st) == IF st.signalled THEN -1 ELSE st.code

\* status.success()
Success(st) == ~st.signalled /\ st.code = 0

\* HookDef { copy, run, shell }: which fields are present, and the run list
HookDefs ==
    { h \in [copy : BOOLEAN, hasRun : BOOLEAN,
             run : { RunList(n) : n \in 0..MaxCmds }, shell : BOOLEAN] :
        ~h.hasRun => h.run = << >> }

NoChild ==
    [alive |-> FALSE, want |-> "none", wrote |-> 0,
     open |-> [s \in Streams |-> FALSE],
     pipe |-> [s \in Streams |-> << >>],
     status |-> [signalled |-> FALSE, code |-> 0]]

NoReturn == [kind |-> "none", command |-> NoCommand, exit_code |-> 0, results |-> << >>]

VARIABLES
    \* --- hook runner
    hook,          \* the HookDef being run
    hpc,           \* "init", "copy", "run", "shell", "done"
    stepsRun,      \* the steps started so far, in order
    stepFailed,    \* the step that failed, or "none"
    \* --- execute_run_step
    commands,      \* its `commands` argument
    idx,           \* position of the for loop in `commands`
    rpc,           \* "idle", "spawn", "drain", "wait", "returned"
    executed,      \* Vec<CommandOutput>
    stdout_buf, stderr_buf,
    stdout_done, stderr_done,
    readersOpen,   \* the function still holds the read ends of the pipes
    runRet,        \* what execute_run_step returned
    \* --- the operating system
    child,         \* the process spawned last
    started,       \* every command spawned so far, in order
    running,       \* positions in `started` of the processes not yet exited
    eofReports     \* per stream: how often next_line returned None for `child`

hookVars ==
    << hook, hpc, stepsRun, stepFailed, commands, idx, rpc, executed,
       stdout_buf, stderr_buf, stdout_done, stderr_done, readersOpen, runRet,
       child, started, running, eofReports >>

runLocals ==
    << commands, idx, executed, stdout_buf, stderr_buf, stdout_done,
       stderr_done, readersOpen >>

hookLocals == << hook, hpc, stepsRun, stepFailed >>

\* the state of the commands (declared here, described further down)
VARIABLES
    localBranches,   \* refs/heads/* of the repository
    remoteRefs,      \* refs/remotes/origin/* of the repository (cached)
    serverBranches,  \* the branches the origin remote has
    hasOrigin,       \* the repository has a remote named origin
    fsPaths,         \* directories and files that exist under worktree_root
    gitWorktrees,    \* names under .git/worktrees whose HEAD is their branch
    repos,           \* table repos: sequence of rows, id = position
    worktrees,       \* table worktrees: sequence of rows, id = position
    events,          \* table events: sequence of rows, id = position
    cmd,             \* the command being executed and its arguments
    pc,              \* position of the command
    ret,             \* what the command returned
    calls,           \* calls create_worktree made to git2, in order
    before,          \* the state when the command started
    atCall,          \* the state when create_worktree was entered
    hooked,          \* how the pre_* and the post_* hook of the command ended
    wt_id,           \* remove: id of the row the identifier resolved to
    opsDone,         \* commands completed
    envDone,         \* changes made on the remote by somebody else
    dbCall,          \* the last call made on the Database, with its arguments
    dbRet,           \* what that call returned
    dbPrev,          \* the tables when that call was made
    dbCalls,         \* calls made on the Database by its caller
    dbVersion,       \* user_version of the database file
    backups,         \* the backup files next to it, by the instant in their name
    clock,           \* unix_epoch_secs()
    args,            \* a function called on its own: what it is given
    answer           \* what that function returned and left behind

gitVars == << localBranches, remoteRefs, serverBranches, hasOrigin, fsPaths,
              gitWorktrees >>

storeVars == << repos, worktrees, events >>

cmdVars == << cmd, pc, ret, calls, before, atCall, hooked, wt_id, opsDone >>

fileVars == << dbVersion, backups, clock >>

dbVars == << dbCall, dbRet, dbPrev, dbCalls, fileVars >>

callVars == << args, answer >>

worldVars == << gitVars, storeVars, cmdVars, envDone, dbVars, callVars >>

\* what no command touches
restVars == << hookVars, dbVars, callVars >>

vars == << hookVars, worldVars >>

\* ------------------------------------------------------------------------
\* Hook engine: the hook runner (copy -> run -> shell)
\* ------------------------------------------------------------------------

StepOrder == << "copy", "run", "shell" >>

StepPresent(h, step) ==
    CASE step = "copy"  -> h.copy
      [] step = "run"   -> h.hasRun
      [] step = "shell" -> h.shell

\* the first configured step at position k or later of StepOrder, else "done"
RECURSIVE StepFrom(_, _)
StepFrom(h, k) ==
    IF k > Len(StepOrder) THEN "done"
    ELSE IF StepPresent(h, StepOrder[k]) THEN StepOrder[k]
    ELSE StepFrom(h, k + 1)

StepIndex(step) == CHOOSE k \in 1..Len(StepOrder) : StepOrder[k] = step

\* the step that follows `step` when `step` succeeded
NextStepAfter(h, step) == StepFrom(h, StepIndex(step) + 1)

HookInit ==
    /\ hook \in HookDefs
    /\ hpc = "init"
    /\ stepsRun = << >>
    /\ stepFailed = "none"
    /\ commands = << >>
    /\ idx = 1
    /\ rpc = "idle"
    /\ executed = << >>
    /\ stdout_buf = << >>
    /\ stderr_buf = << >>
    /\ stdout_done = FALSE
    /\ stderr_done = FALSE
    /\ readersOpen = FALSE
    /\ runRet = NoReturn
    /\ child = NoChild
    /\ started = << >>
    /\ running = {}
    /\ eofReports = [s \in Streams |-> 0]

\* the hook is looked up and its first configured step selected
HookBegin ==
    /\ hpc = "init"
    /\ hpc' = StepFrom(hook, 1)
    /\ UNCHANGED << hook, stepsRun, stepFailed, runLocals, rpc, runRet,
                    child, started, running, eofReports >>
    /\ UNCHANGED worldVars

\* step 1: execute_copy_step, which succeeds or fails as a whole
CopyStep ==
    /\ hpc = "copy"
    /\ stepsRun' = Append(stepsRun, "copy")
    /\ \E ok \in BOOLEAN :
         IF ok
         THEN hpc' = NextStepAfter(hook, "copy") /\ UNCHANGED stepFailed
         ELSE hpc' = "done" /\ stepFailed' = "copy"
    /\ UNCHANGED << hook, runLocals, rpc, runRet, child, started, running,
                    eofReports >>
    /\ UNCHANGED worldVars

\* entry of execute_run_step(cmds, ..): `let mut executed = Vec::new()` and the
\* for loop's first test
EnterRunStep(cmds) ==
    /\ rpc = "idle"
    /\ commands' = cmds
    /\ executed' = << >>
    /\ idx' = 1
    /\ IF cmds = << >>
       THEN /\ rpc' = "returned"
            /\ runRet' = [kind |-> "ok", command |-> NoCommand, exit_code |-> 0,
                          results |-> << >>]
       ELSE /\ rpc' = "spawn"
            /\ runRet' = NoReturn
    /\ UNCHANGED << stdout_buf, stderr_buf, stdout_done, stderr_done,
                    readersOpen, child, started, running, eofReports >>

\* step 2: the `run` list
RunStepBegin ==
    /\ hpc = "run"
    /\ stepsRun' = Append(stepsRun, "run")
    /\ EnterRunStep(hook.run)
    /\ UNCHANGED << hook, hpc, stepFailed >>
    /\ UNCHANGED worldVars

\* step 3: the `shell` script, executed the same way as a run-step command
ShellStepBegin ==
    /\ hpc = "shell"
    /\ stepsRun' = Append(stepsRun, "shell")
    /\ EnterRunStep(<< ShellScript >>)
    /\ UNCHANGED << hook, hpc, stepFailed >>
    /\ UNCHANGED worldVars

\* mutant of StepReturn: a failed step does not stop the hook
StepReturnIgnoringFailure ==
    /\ hpc \in {"run", "shell"}
    /\ rpc = "returned"
    /\ rpc' = "idle"
    /\ hpc' = NextStepAfter(hook, hpc)
    /\ UNCHANGED << hook, stepsRun, stepFailed, runLocals, runRet, child,
                    started, running, eofReports >>
    /\ UNCHANGED worldVars

\* the run or shell step returned: go on to the next step, or stop the hook
StepReturn ==
    /\ hpc \in {"run", "shell"}
    /\ rpc = "returned"
    /\ rpc' = "idle"
    /\ IF runRet.kind = "ok"
       THEN hpc' = NextStepAfter(hook, hpc) /\ UNCHANGED stepFailed
       ELSE hpc' = "done" /\ stepFailed' = hpc
    /\ UNCHANGED << hook, stepsRun, runLocals, runRet, child, started,
                    running, eofReports >>
    /\ UNCHANGED worldVars

\* ------------------------------------------------------------------------
\* Hook engine: execute_run_step (hooks/run.rs)
\* ------------------------------------------------------------------------

\* mutant of RunStepError: the error is built without the partial results
RunStepErrorWithoutResults(command, code, ex) ==
    [kind |-> "RunStepError", command |-> command, exit_code |-> code,
     results |-> << >>]

\* RunStepError { command, exit_code, results: RunResult { executed } }
RunStepError(command, code, ex) ==
    [kind |-> "RunStepError", command |-> command, exit_code |-> code,
     results |-> ex]

\* Ok(RunResult { executed })
RunOk(ex) == [kind |-> "ok", command |-> NoCommand, exit_code |-> 0, results |-> ex]

\* an anyhow error raised by `?`: it names the command in its context message
\* and holds no RunResult
PlainError(kind, command) ==
    [kind |-> kind, command |-> command, exit_code |-> 0, results |-> << >>]

\* whether a returned value holds a RunResult
CarriesResults(result) == result.kind \in {"ok", "RunStepError"}

\* the guards of the two select! arms: `if !stdout_done`, `if !stderr_done`
StdoutPolled == ~stdout_done

\* mutant of StderrPolled: stderr is read only after stdout reached its end
StderrPolledAfterStdout == ~stderr_done /\ stdout_done

StderrPolled == ~stderr_done

\* mutant of LoopContinues: `&&` in place of `||`
LoopContinuesWhileBoth(outDone, errDone) == ~outDone /\ ~errDone

\* the test of `while !stdout_done || !stderr_done`, on the flags as given
LoopContinues(outDone, errDone) == ~outDone \/ ~errDone

\* mutant of StopsAt: the exit status is never tested
StopsAtNever(st) == FALSE

\* `if !status.success()`: the run step stops at this command
StopsAt(st) == ~Success(st)

\* next_line() on stream s has something to return: a line in the pipe, or
\* end-of-stream once every write end is closed and the pipe is empty
LineReady(s) == child.pipe[s] # << >>

EofReady(s) == child.pipe[s] = << >> /\ ~child.open[s]

\* Command::new("sh").arg("-c").arg(cmd)...spawn()
SpawnCommand ==
    /\ rpc = "spawn"
    /\ \E ok \in BOOLEAN :
         IF ok
         THEN /\ child' = [alive |-> TRUE, want |-> "none", wrote |-> 0,
                           open |-> [s \in Streams |-> TRUE],
                           pipe |-> [s \in Streams |-> << >>],
                           status |-> [signalled |-> FALSE, code |-> 0]]
              /\ started' = Append(started, commands[idx])
              /\ running' = running \cup {Len(started) + 1}
              /\ stdout_buf' = << >>
              /\ stderr_buf' = << >>
              /\ stdout_done' = FALSE
              /\ stderr_done' = FALSE
              /\ readersOpen' = TRUE
              /\ eofReports' = [s \in Streams |-> 0]
              /\ rpc' = "drain"
              /\ UNCHANGED runRet
         ELSE /\ rpc' = "returned"
              /\ runRet' = PlainError("spawn_failed", commands[idx])
              /\ UNCHANGED << child, started, running, stdout_buf, stderr_buf,
                              stdout_done, stderr_done, readersOpen, eofReports >>
    /\ UNCHANGED << hookLocals, commands, idx, executed >>
    /\ UNCHANGED worldVars

\* the `?` of `result?`: next_line() fails on a line that is not valid UTF-8
\* (any other read error takes the same path); the function returns at once
\* and drops both readers
ReadFails ==
    /\ rpc' = "returned"
    /\ runRet' = PlainError("read_failed", commands[idx])
    /\ readersOpen' = FALSE
    /\ UNCHANGED << hookLocals, commands, idx, executed, stdout_buf, stderr_buf,
                    stdout_done, stderr_done, child, started, running,
                    eofReports >>

\* select! arm 1: stdout_reader.next_line()
DrainStdout ==
    /\ rpc = "drain"
    /\ StdoutPolled
    /\ \/ /\ LineReady("stdout")
          /\ ~Head(child.pipe["stdout"]).utf8
          /\ ReadFails
       \/ /\ LineReady("stdout")
          /\ Head(child.pipe["stdout"]).utf8
          /\ stdout_buf' = Append(stdout_buf, Head(child.pipe["stdout"]).n)
          /\ child' = [child EXCEPT !.pipe["stdout"] = Tail(@)]
          /\ UNCHANGED << hookLocals, commands, idx, executed, stderr_buf,
                          stdout_done, stderr_done, readersOpen, rpc, runRet,
                          started, running, eofReports >>
       \/ /\ EofReady("stdout")
          /\ stdout_done' = TRUE
          /\ eofReports' = [eofReports EXCEPT !["stdout"] = @ + 1]
          /\ rpc' = IF LoopContinues(TRUE, stderr_done) THEN "drain" ELSE "wait"
          /\ UNCHANGED << hookLocals, commands, idx, executed, stdout_buf,
                          stderr_buf, stderr_done, readersOpen, runRet, child,
                          started, running >>
    /\ UNCHANGED worldVars

\* select! arm 2: stderr_reader.next_line()
DrainStderr ==
    /\ rpc = "drain"
    /\ StderrPolled
    /\ \/ /\ LineReady("stderr")
          /\ ~Head(child.pipe["stderr"]).utf8
          /\ ReadFails
       \/ /\ LineReady("stderr")
          /\ Head(child.pipe["stderr"]).utf8
          /\ stderr_buf' = Append(stderr_buf, Head(child.pipe["stderr"]).n)
          /\ child' = [child EXCEPT !.pipe["stderr"] = Tail(@)]
          /\ UNCHANGED << hookLocals, commands, idx, executed, stdout_buf,
                          stdout_done, stderr_done, readersOpen, rpc, runRet,
                          started, running, eofReports >>
       \/ /\ EofReady("stderr")
          /\ stderr_done' = TRUE
          /\ eofReports' = [eofReports EXCEPT !["stderr"] = @ + 1]
          /\ rpc' = IF LoopContinues(stdout_done, TRUE) THEN "drain" ELSE "wait"
          /\ UNCHANGED << hookLocals, commands, idx, executed, stdout_buf,
                          stderr_buf, stdout_done, readersOpen, runRet, child,
                          started, running >>
    /\ UNCHANGED worldVars

\* child.wait().await returns once the process has exited
WaitReturns == ~child.alive

\* child.wait(), the push onto `executed`, the exit-code test and the loop's
\* step to the next command
WaitChild ==
    /\ rpc = "wait"
    /\ WaitReturns
    /\ readersOpen' = FALSE
    /\ child' = NoChild
    /\ \E ok \in BOOLEAN :
         IF ~ok
         THEN /\ rpc' = "returned"
              /\ runRet' = PlainError("wait_failed", commands[idx])
              /\ UNCHANGED << executed, idx >>
         ELSE LET out == [command |-> commands[idx], stdout |-> stdout_buf,
                          stderr |-> stderr_buf,
                          exit_code |-> ExitCode(child.status)]
                  ex == Append(executed, out)
              IN  /\ executed' = ex
                  /\ IF StopsAt(child.status)
                     THEN /\ rpc' = "returned"
                          /\ runRet' = RunStepError(commands[idx],
                                                    ExitCode(child.status), ex)
                          /\ UNCHANGED idx
                     ELSE IF idx = Len(commands)
                     THEN /\ rpc' = "returned"
                          /\ runRet' = RunOk(ex)
                          /\ UNCHANGED idx
                     ELSE /\ rpc' = "spawn"
                          /\ idx' = idx + 1
                          /\ UNCHANGED runRet
    /\ UNCHANGED << hookLocals, commands, stdout_buf, stderr_buf, stdout_done,
                    stderr_done, started, running, eofReports >>
    /\ UNCHANGED worldVars

\* ------------------------------------------------------------------------
\* Hook engine: the spawned process and its pipes
\* ------------------------------------------------------------------------

\* the process issues a write of one line to stream s
ChildWantWrite(s) ==
    /\ child.alive
    /\ child.want = "none"
    /\ child.open[s]
    /\ child.wrote < MaxWrites
    /\ child' = [child EXCEPT !.want = s]
    /\ UNCHANGED << hookLocals, runLocals, rpc, runRet, started, running,
                    eofReports >>
    /\ UNCHANGED worldVars

\* the write completes as soon as the pipe has room; the line written is
\* valid UTF-8 or not
ChildWriteDone ==
    /\ child.alive
    /\ child.want # "none"
    /\ readersOpen
    /\ Len(child.pipe[child.want]) < PipeCap
    /\ \E u \in BOOLEAN :
         child' = [child EXCEPT
                     !.pipe[child.want] =
                         Append(@, [n |-> child.wrote + 1, utf8 |-> u]),
                     !.wrote = @ + 1,
                     !.want = "none"]
    /\ UNCHANGED << hookLocals, runLocals, rpc, runRet, started, running,
                    eofReports >>
    /\ UNCHANGED worldVars

\* a write to a pipe whose read end was dropped: SIGPIPE ends the process
ChildBrokenPipe ==
    /\ child.alive
    /\ child.want # "none"
    /\ ~readersOpen
    /\ child' = [child EXCEPT !.alive = FALSE, !.want = "none",
                              !.open = [s \in Streams |-> FALSE],
                              !.status = [signalled |-> TRUE, code |-> 0]]
    /\ running' = running \ {Len(started)}
    /\ UNCHANGED << hookLocals, runLocals, rpc, runRet, started, eofReports >>
    /\ UNCHANGED worldVars

\* the process closes one of its streams before it exits
ChildClose(s) ==
    /\ child.alive
    /\ child.want = "none"
    /\ child.open[s]
    /\ child' = [child EXCEPT !.open[s] = FALSE]
    /\ UNCHANGED << hookLocals, runLocals, rpc, runRet, started, running,
                    eofReports >>
    /\ UNCHANGED worldVars

\* the process exits, or is ended by a signal; its write ends are closed
ChildExit(st) ==
    /\ child.alive
    /\ child.want = "none"
    /\ child' = [child EXCEPT !.alive = FALSE,
                              !.open = [s \in Streams |-> FALSE],
                              !.status = st]
    /\ running' = running \ {Len(started)}
    /\ UNCHANGED << hookLocals, runLocals, rpc, runRet, started, eofReports >>
    /\ UNCHANGED worldVars

HookNext ==
    \/ HookBegin
    \/ CopyStep
    \/ RunStepBegin
    \/ ShellStepBegin
    \/ StepReturn
    \/ SpawnCommand
    \/ DrainStdout
    \/ DrainStderr
    \/ WaitChild
    \/ \E s \in Streams : ChildWantWrite(s)
    \/ ChildWriteDone
    \/ ChildBrokenPipe
    \/ \E s \in Streams : ChildClose(s)
    \/ \E st \in ExitStatuses : ChildExit(st)


\* execute_run_step called on its own with a `run` list of one or more commands
RunInit ==
    /\ \E n \in 1..MaxCmds :
         /\ hook = [copy |-> FALSE, hasRun |-> TRUE, run |-> RunList(n),
                    shell |-> FALSE]
         /\ commands = RunList(n)
    /\ hpc = "run"
    /\ stepsRun = << "run" >>
    /\ stepFailed = "none"
    /\ idx = 1
    /\ rpc = "spawn"
    /\ executed = << >>
    /\ stdout_buf = << >>
    /\ stderr_buf = << >>
    /\ stdout_done = FALSE
    /\ stderr_done = FALSE
    /\ readersOpen = FALSE
    /\ runRet = NoReturn
    /\ child = NoChild
    /\ started = << >>
    /\ running = {}
    /\ eofReports = [s \in Streams |-> 0]

RunNext ==
    \/ SpawnCommand
    \/ DrainStdout
    \/ DrainStderr
    \/ WaitChild
    \/ \E s \in Streams : ChildWantWrite(s)
    \/ ChildWriteDone
    \/ ChildBrokenPipe
    \/ \E s \in Streams : ChildClose(s)
    \/ \E st \in ExitStatuses : ChildExit(st)

\* The tokio runtime polls a select! arm whose read is ready, and the kernel
\* completes a write once the pipe has room or its read end is gone.  The
\* process itself is under no obligation to write, close or exit.
RunFairness ==
    /\ WF_hookVars(DrainStdout)
    /\ WF_hookVars(DrainStderr)
    /\ WF_hookVars(WaitChild)
    /\ WF_hookVars(ChildWriteDone)
    /\ WF_hookVars(ChildBrokenPipe)


\* ------------------------------------------------------------------------
\* Commands: the repository, the file system and the state store
\* ------------------------------------------------------------------------

\* branch names; "main" is the branch the repository starts with
BranchNames == {"main", "a", "b"}

\* the branches a create command is asked for
NewBranches == {"a", "b"}

\* worktree_root/<repo>: parent of every worktree path the template renders
ParentDir == << "root", "repo" >>

\* worktree_root/<repo>/<branch>: render_worktree_path of the default template
TargetPath(b) == << "root", "repo", b >>

\* path of the repository discover_repo returns
RepoPath == << "repo" >>

NoCmd == [kind |-> "none", branch |-> "none", base |-> "none", prune |-> FALSE]

\* no hook of the command has run
NoHooks == [pre |-> "none", post |-> "none"]

\* what a command can observe or change, as one record
Snapshot ==
    [localBranches |-> localBranches, remoteRefs |-> remoteRefs,
     fsPaths |-> fsPaths, gitWorktrees |-> gitWorktrees,
     repos |-> repos, worktrees |-> worktrees, events |-> events]

NoSnapshot ==
    [localBranches |-> {}, remoteRefs |-> {}, fsPaths |-> {},
     gitWorktrees |-> {}, repos |-> << >>, worktrees |-> << >>,
     events |-> << >>]

\* no call was made on the Database directly
NoCall == [op |-> "none"]

\* Migrations::new(vec![M::up(..)]): the schema version this build migrates to
LatestMigration == 1

\* no file named <db>.backup-<ts> is in the directory of the database
NoBackups == [ts \in {} |-> [version |-> 0, store |-> << >>]]

StoreSnapshot == [repos |-> repos, worktrees |-> worktrees, events |-> events]

NoStore == [repos |-> << >>, worktrees |-> << >>, events |-> << >>]

\* no function has been called on its own
NoArgs == [fn |-> "none"]

NoAnswer == [ret |-> "none"]

CallQuiet == args = NoArgs /\ answer = NoAnswer

DbQuiet ==
    /\ dbCall = NoCall
    /\ dbRet = "none"
    /\ dbPrev = NoStore
    /\ dbCalls = 0
    /\ dbVersion = LatestMigration
    /\ backups = NoBackups
    /\ clock = 0

\* A repository with its first branch, nothing tracked in the store yet.
\* The remote, when there is one, has any branches; the cached
\* remote-tracking refs are whatever an earlier fetch left, stale or not.
\* Something may already sit at a path a worktree will be asked for.
WorldInit ==
    /\ localBranches = {"main"}
    /\ hasOrigin \in BOOLEAN
    /\ serverBranches \in SUBSET BranchNames
    /\ remoteRefs \in SUBSET BranchNames
    /\ ~hasOrigin => serverBranches = {} /\ remoteRefs = {}
    /\ fsPaths \in SUBSET {ParentDir, TargetPath("a")}
    /\ TargetPath("a") \in fsPaths => ParentDir \in fsPaths
    /\ gitWorktrees = {}
    /\ repos = << >>
    /\ worktrees = << >>
    /\ events = << >>
    /\ cmd = NoCmd
    /\ pc = "idle"
    /\ ret = "none"
    /\ calls = << >>
    /\ before = NoSnapshot
    /\ atCall = NoSnapshot
    /\ hooked = NoHooks
    /\ wt_id = 0
    /\ opsDone = 0
    /\ envDone = 0
    /\ DbQuiet
    /\ CallQuiet

\* the command returns `r` to main
Return(r) == pc' = "done" /\ ret' = r

\* ---- env: somebody else pushes to or deletes from the remote ------------

RemotePush(b) ==
    /\ hasOrigin
    /\ envDone < MaxEnv
    /\ b \notin serverBranches
    /\ serverBranches' = serverBranches \cup {b}
    /\ envDone' = envDone + 1
    /\ UNCHANGED << localBranches, remoteRefs, hasOrigin, fsPaths,
                    gitWorktrees, storeVars, cmdVars, restVars >>

RemoteDelete(b) ==
    /\ hasOrigin
    /\ envDone < MaxEnv
    /\ b \in serverBranches
    /\ serverBranches' = serverBranches \ {b}
    /\ envDone' = envDone + 1
    /\ UNCHANGED << localBranches, remoteRefs, hasOrigin, fsPaths,
                    gitWorktrees, storeVars, cmdVars, restVars >>

\* ---- hooks around a command ---------------------------------------------

\* how the hook of a lifecycle event ended: not configured, all steps ran,
\* or a step failed
HookOutcomes == {"skipped", "ok", "failed"}

\* mutant of PreHookCancels: the operation goes on whatever the hook did
PreHookNeverCancels(outcome) == FALSE

\* a pre_* hook with this outcome cancels the operation
PreHookCancels(outcome) == outcome = "failed"

\* a post_* hook with this outcome makes the command report a failure
PostHookReported(outcome) == outcome = "failed"

\* ---- trench create <branch> [--from <base>] -----------------------------

StartCreate(branch, base) ==
    /\ pc = "idle"
    /\ opsDone < MaxOps
    /\ cmd' = [kind |-> "create", branch |-> branch, base |-> base,
               prune |-> FALSE]
    /\ before' = Snapshot
    /\ atCall' = NoSnapshot
    /\ hooked' = NoHooks
    /\ calls' = << >>
    /\ ret' = "none"
    /\ wt_id' = 0
    /\ pc' = "pre_create"
    /\ UNCHANGED << gitVars, storeVars, opsDone, envDone, restVars >>

\* the pre_create hook runs before anything is created
PreCreateHook ==
    /\ pc = "pre_create"
    /\ \E outcome \in HookOutcomes :
         /\ hooked' = [hooked EXCEPT !.pre = outcome]
         /\ IF PreHookCancels(outcome)
              THEN Return("PreHookFailed")
              ELSE pc' = "mkdir" /\ ret' = ret
    /\ UNCHANGED << gitVars, storeVars, cmd, calls, before, atCall, wt_id,
                    opsDone, envDone, restVars >>

\* Path::parent
Parent(path) == SubSeq(path, 1, Len(path) - 1)

\* mutant of DirsCreated: create_dir_all(worktree_path)
DirsCreatedWithTarget(worktree_path) == {Parent(worktree_path), worktree_path}

\* the directories create_dir_all(worktree_path.parent()) makes
DirsCreated(worktree_path) == {Parent(worktree_path)}

\* std::fs::create_dir_all(worktree_path.parent())
CreateParentDir ==
    /\ pc = "mkdir"
    /\ \E ok \in BOOLEAN :
         IF ok
           THEN /\ fsPaths' = fsPaths \cup DirsCreated(TargetPath(cmd.branch))
                /\ atCall' = [Snapshot EXCEPT !.fsPaths = fsPaths']
                /\ pc' = "cw_open"
                /\ ret' = ret
           ELSE /\ Return("Io")
                /\ UNCHANGED << fsPaths, atCall >>
    /\ UNCHANGED << localBranches, remoteRefs, serverBranches, hasOrigin,
                    gitWorktrees, storeVars, cmd, calls, before, hooked, wt_id,
                    opsDone, envDone, restVars >>

\* create_worktree: git2::Repository::open(repo_path)
CwOpen ==
    /\ pc = "cw_open"
    /\ calls' = Append(calls, "open")
    /\ \E ok \in BOOLEAN :
         IF ok THEN pc' = "cw_local" /\ ret' = ret ELSE Return("Git")
    /\ UNCHANGED << gitVars, storeVars, cmd, before, atCall, hooked, wt_id, opsDone,
                    envDone, restVars >>

\* mutant of LocalBranchExists: the local check is missing
LocalBranchNeverFound(b) == FALSE

\* repo.find_branch(branch, BranchType::Local).is_ok()
LocalBranchExists(b) == b \in localBranches

\* a create_worktree that looks the branch up and goes on whatever it finds
CwLocalCheckIgnored ==
    /\ pc = "cw_local"
    /\ calls' = Append(calls, "find_branch_local")
    /\ pc' = "cw_fetch"
    /\ UNCHANGED << gitVars, storeVars, cmd, ret, before, atCall, hooked, wt_id,
                    opsDone, envDone, restVars >>

\* create_worktree: the branch already exists locally
CwLocalCheck ==
    /\ pc = "cw_local"
    /\ calls' = Append(calls, "find_branch_local")
    /\ IF LocalBranchExists(cmd.branch)
         THEN Return("BranchAlreadyExists")
         ELSE pc' = "cw_fetch" /\ ret' = ret
    /\ UNCHANGED << gitVars, storeVars, cmd, before, atCall, hooked, wt_id, opsDone,
                    envDone, restVars >>

\* the fetch with `?`: a failed fetch, or no remote named origin, ends the call
CwFetchPropagated ==
    /\ pc = "cw_fetch"
    /\ IF hasOrigin
         THEN \E ok \in BOOLEAN :
                IF ok
                  THEN /\ remoteRefs' = serverBranches
                       /\ calls' = Append(calls, "fetch_ok")
                       /\ pc' = "cw_remote" /\ ret' = ret
                  ELSE /\ remoteRefs' = remoteRefs
                       /\ calls' = Append(calls, "fetch_failed")
                       /\ Return("Git")
         ELSE /\ remoteRefs' = remoteRefs
              /\ calls' = Append(calls, "no_origin")
              /\ Return("Git")
    /\ UNCHANGED << localBranches, serverBranches, hasOrigin, fsPaths,
                    gitWorktrees, storeVars, cmd, before, atCall, hooked, wt_id,
                    opsDone, envDone >>
    /\ UNCHANGED restVars

\* create_worktree: best-effort fetch with prune; a failure is swallowed and
\* the cached refs stay as they were
CwFetch ==
    /\ pc = "cw_fetch"
    /\ IF hasOrigin
         THEN \E ok \in BOOLEAN :
                IF ok
                  THEN /\ remoteRefs' = serverBranches
                       /\ calls' = Append(calls, "fetch_ok")
                  ELSE /\ remoteRefs' = remoteRefs
                       /\ calls' = Append(calls, "fetch_failed")
         ELSE /\ remoteRefs' = remoteRefs
              /\ calls' = Append(calls, "no_origin")
    /\ pc' = "cw_remote"
    /\ UNCHANGED << localBranches, serverBranches, hasOrigin, fsPaths,
                    gitWorktrees, storeVars, cmd, ret, before, atCall, hooked, wt_id,
                    opsDone, envDone >>
    /\ UNCHANGED restVars

\* mutant of RemoteBranchExists: looks at the refs as cached when the call
\* was entered, that is before the fetch
RemoteBranchExistedAtCall(b) == b \in atCall.remoteRefs

\* repo.find_branch("origin/<branch>", BranchType::Remote).is_ok()
RemoteBranchExists(b) == b \in remoteRefs

\* create_worktree: the branch already exists on the remote
CwRemoteCheck ==
    /\ pc = "cw_remote"
    /\ calls' = Append(calls, "find_branch_remote")
    /\ IF RemoteBranchExists(cmd.branch)
         THEN Return("RemoteBranchAlreadyExists")
         ELSE pc' = "cw_base" /\ ret' = ret
    /\ UNCHANGED << gitVars, storeVars, cmd, before, atCall, hooked, wt_id, opsDone,
                    envDone, restVars >>

\* the base resolves to a commit: local branch first, then origin/<base>
BaseResolves(base) == base \in localBranches \/ base \in remoteRefs

\* create_worktree: resolve the base branch
CwResolveBase ==
    /\ pc = "cw_base"
    /\ calls' = Append(calls, "resolve_base")
    /\ IF BaseResolves(cmd.base)
         THEN pc' = "cw_branch" /\ ret' = ret
         ELSE Return("BaseBranchNotFound")
    /\ UNCHANGED << gitVars, storeVars, cmd, before, atCall, hooked, wt_id, opsDone,
                    envDone, restVars >>

\* create_worktree: repo.branch(branch, &base_commit, false)?  (force is
\* false: an existing branch of that name is an error)
CwBranch ==
    /\ pc = "cw_branch"
    /\ IF cmd.branch \in localBranches
         THEN /\ calls' = Append(calls, "branch_failed")
              /\ Return("Git")
              /\ UNCHANGED localBranches
         ELSE /\ calls' = Append(calls, "branch")
              /\ localBranches' = localBranches \cup {cmd.branch}
              /\ pc' = "cw_add"
              /\ ret' = ret
    /\ UNCHANGED << remoteRefs, serverBranches, hasOrigin, fsPaths,
                    gitWorktrees, storeVars, cmd, before, atCall, hooked, wt_id,
                    opsDone, envDone, restVars >>

\* how repo.worktree(branch, target_path, opts) can end: "ok"; "early", it
\* fails before anything of the worktree exists (the target path is occupied,
\* the name is taken); "late", it fails after the working directory was made
\* and the worktree's HEAD was set to the branch (the checkout fails)
WorktreeAddOutcomes(target, name) ==
    IF target \in fsPaths \/ name \in gitWorktrees
      THEN {"early"}
      ELSE {"ok", "early", "late"}

\* create_worktree: add the worktree at target_path
CwWorktreeAdd ==
    /\ pc = "cw_add"
    /\ \E outcome \in WorktreeAddOutcomes(TargetPath(cmd.branch), cmd.branch) :
         /\ calls' = Append(calls, IF outcome = "ok" THEN "worktree"
                                                     ELSE "worktree_failed")
         /\ IF outcome = "early"
              THEN UNCHANGED << fsPaths, gitWorktrees >>
              ELSE /\ fsPaths' = fsPaths \cup {TargetPath(cmd.branch)}
                   /\ gitWorktrees' = gitWorktrees \cup {cmd.branch}
         /\ pc' = IF outcome = "ok" THEN "repo_row" ELSE "cw_cleanup"
    /\ UNCHANGED << localBranches, remoteRefs, serverBranches, hasOrigin,
                    storeVars, cmd, ret, before, atCall, hooked, wt_id, opsDone,
                    envDone, restVars >>

\* Branch::delete refuses a branch that is the HEAD of a linked worktree
BranchDeleteRefused(b) == b \in gitWorktrees

\* create_worktree: `if let Ok(mut orphan) = repo.find_branch(..) { let _ =
\* orphan.delete(); } return Err(GitError::Git(e))`
CwCleanup ==
    /\ pc = "cw_cleanup"
    /\ IF cmd.branch \in localBranches
         THEN /\ calls' = Append(calls, "delete")
              /\ localBranches' = IF BranchDeleteRefused(cmd.branch)
                                    THEN localBranches
                                    ELSE localBranches \ {cmd.branch}
         ELSE UNCHANGED << calls, localBranches >>
    /\ Return("Git")
    /\ UNCHANGED << remoteRefs, serverBranches, hasOrigin, fsPaths,
                    gitWorktrees, storeVars, cmd, before, atCall, hooked, wt_id,
                    opsDone, envDone, restVars >>

\* ------------------------------------------------------------------------
\* State store (state/mod.rs, state/queries.rs): values and queries
\* ------------------------------------------------------------------------

\* Option<T>: None, Some(v)
None == << >>

Some(v) == << v >>

IsSome(o) == o # None

\* unix_epoch_secs() as i64; the model has one instant
Now == 1

\* the row insert_worktree writes: managed = 1, the other columns NULL
NewWorktree(repo_id, branch, path, base_branch) ==
    [repo_id |-> repo_id, branch |-> branch, path |-> path,
     base_branch |-> base_branch, managed |-> TRUE, adopted_at |-> None,
     last_accessed |-> None, removed_at |-> None]

\* schema, repos.path UNIQUE: no other repo row has the path
RepoPathFree(path) == \A i \in DOMAIN repos : repos[i].path # path

\* a worktrees table without the UNIQUE constraint on path
WorktreePathNotChecked(path) == TRUE

\* schema, worktrees.path UNIQUE: no worktree row of any repo has the path
WorktreePathFree(path) == \A i \in DOMAIN worktrees : worktrees[i].path # path

\* schema, FOREIGN KEY (repo_id) REFERENCES repos(id)
RepoExists(repo_id) == repo_id \in DOMAIN repos

\* an events table with two independent foreign keys only
EventWorktreeExists(repo_id, worktree_id) ==
    \/ worktree_id = None
    \/ worktree_id[1] \in DOMAIN worktrees

\* schema, events: the worktree of an event, when given, is a row of the
\* event's repo
EventOwnerOk(repo_id, worktree_id) ==
    \/ worktree_id = None
    \/ /\ worktree_id[1] \in DOMAIN worktrees
       /\ worktrees[worktree_id[1]].repo_id = repo_id

\* insert_repo(name, path, default_base): INSERT INTO repos
InsertRepoOk(path) == RepoPathFree(path)

InsertRepoRows(path) ==
    IF InsertRepoOk(path) THEN Append(repos, [path |-> path]) ELSE repos

\* an insert on a connection that does not enforce foreign keys
InsertWorktreeWithoutForeignKeys(repo_id, path) == WorktreePathFree(path)

\* insert_worktree(repo_id, name, branch, path, base_branch): INSERT INTO
\* worktrees, refused by the schema for an unknown repo or a taken path
InsertWorktreeOk(repo_id, path) ==
    RepoExists(repo_id) /\ WorktreePathFree(path)

InsertWorktreeRows(repo_id, branch, path, base_branch) ==
    IF InsertWorktreeOk(repo_id, path)
      THEN Append(worktrees, NewWorktree(repo_id, branch, path, base_branch))
      ELSE worktrees

\* insert_event(repo_id, worktree_id, event_type, payload): INSERT INTO
\* events, refused by the schema for an unknown repo or a worktree that is
\* not a row of that repo
InsertEventOk(repo_id, worktree_id) ==
    RepoExists(repo_id) /\ EventOwnerOk(repo_id, worktree_id)

\* an events table that keeps one event per worktree: INSERT OR REPLACE
InsertEventReplacing(repo_id, worktree_id, event_type) ==
    IF InsertEventOk(repo_id, worktree_id)
      THEN Append(SelectSeq(events, LAMBDA e : e.worktree_id # worktree_id),
                  [repo_id |-> repo_id, worktree_id |-> worktree_id,
                   event_type |-> event_type])
      ELSE events

InsertEventRows(repo_id, worktree_id, event_type) ==
    IF InsertEventOk(repo_id, worktree_id)
      THEN Append(events, [repo_id |-> repo_id, worktree_id |-> worktree_id,
                           event_type |-> event_type])
      ELSE events

\* the columns update_worktree of queries.rs writes
WorktreeUpdateFields == {"last_accessed", "adopted_at", "managed", "base_branch"}

\* the column the remove command writes through update_worktree
SoftDeleteFields == {"removed_at"}

UpdateFields == WorktreeUpdateFields \cup SoftDeleteFields

\* WorktreeUpdate::default(): every field None, nothing is written
NoUpdate == [f \in UpdateFields |-> None]

\* `sets`: the columns of the UPDATE statement, one per Some field
Sets(update) == { f \in UpdateFields : IsSome(update[f]) }

\* UPDATE worktrees SET <sets> WHERE id = ?: the row after the statement
\* an update that flattens the two-level optional: Some(None) changes
\* nothing
UpdatedRowNullKept(row, update) ==
    [f \in DOMAIN row |->
        IF f \in Sets(update) /\ (f = "managed" \/ IsSome(update[f][1]))
          THEN update[f][1] ELSE row[f]]

UpdatedRow(row, update) ==
    [f \in DOMAIN row |->
        IF f \in Sets(update) THEN update[f][1] ELSE row[f]]

\* update_worktree(id, update): "ok" or the error
\* an update that does not look at the number of rows affected
UpdateNeverNotFound(id, update) == "ok"

UpdateWorktreeResult(id, update) ==
    IF Sets(update) = {} THEN "ok"
    ELSE IF id \notin DOMAIN worktrees THEN "NotFound"
    ELSE "ok"

\* the worktrees table after update_worktree(id, update)
UpdateWorktreeRows(id, update) ==
    IF Sets(update) # {} /\ id \in DOMAIN worktrees
      THEN [worktrees EXCEPT ![id] = UpdatedRow(worktrees[id], update)]
      ELSE worktrees

\* get_worktree(id): Some(row) or None
GetWorktree(id) ==
    IF id \in DOMAIN worktrees THEN Some(worktrees[id]) ELSE None

\* list_worktrees(repo_id): the ids of the rows the query selects,
\* `WHERE repo_id = ?1`
ListWorktrees(repo_id) ==
    { i \in DOMAIN worktrees : worktrees[i].repo_id = repo_id }

\* count_events(worktree_id, event_type)
CountEvents(worktree_id, event_type) ==
    Cardinality({ i \in DOMAIN events :
                    /\ events[i].worktree_id = Some(worktree_id)
                    /\ event_type # None => events[i].event_type = event_type[1] })

\* db.get_repo_by_path(..): the id of the row of this repository, 0 if none
GetRepoByPath(path) ==
    IF \E i \in DOMAIN repos : repos[i].path = path
      THEN CHOOSE i \in DOMAIN repos : repos[i].path = path
      ELSE 0

\* a create that inserts a repo row without looking for one, into a table
\* that takes it
RepoRowAlwaysInserted(path) == Append(repos, [path |-> path])

\* the repos table after the lookup and, when it finds nothing, the insert
GetOrInsertRepoRows(path) ==
    IF GetRepoByPath(path) = 0 THEN InsertRepoRows(path) ELSE repos

\* create: `match db.get_repo_by_path(..)? { Some(r) => r, None =>
\* db.insert_repo(..)? }`
GetOrInsertRepo ==
    /\ pc = "repo_row"
    /\ repos' = GetOrInsertRepoRows(RepoPath)
    /\ pc' = "wt_row"
    /\ UNCHANGED << gitVars, worktrees, events, cmd, ret, calls, before,
                    atCall, hooked, wt_id, opsDone, envDone, restVars >>

\* create: db.insert_worktree(repo.id, name, branch, path, base)
InsertWorktree ==
    /\ pc = "wt_row"
    /\ worktrees' = InsertWorktreeRows(GetRepoByPath(RepoPath), cmd.branch,
                                       TargetPath(cmd.branch), Some(cmd.base))
    /\ IF InsertWorktreeOk(GetRepoByPath(RepoPath), TargetPath(cmd.branch))
         THEN pc' = "created_event" /\ ret' = ret
         ELSE Return("Db")
    /\ UNCHANGED << gitVars, repos, events, cmd, calls, before, atCall, hooked,
                    wt_id, opsDone, envDone, restVars >>

\* a create that records the row and no event
InsertCreatedEventSkipped ==
    /\ pc = "created_event"
    /\ pc' = "post_create"
    /\ UNCHANGED << gitVars, storeVars, cmd, ret, calls, before,
                    atCall, hooked, wt_id, opsDone, envDone, restVars >>

\* create: db.insert_event(repo.id, Some(wt.id), "created", None)
InsertCreatedEvent ==
    /\ pc = "created_event"
    /\ events' = InsertEventRows(GetRepoByPath(RepoPath),
                                 Some(Len(worktrees)), "created")
    /\ IF InsertEventOk(GetRepoByPath(RepoPath), Some(Len(worktrees)))
         THEN pc' = "post_create" /\ ret' = ret
         ELSE Return("Db")
    /\ UNCHANGED << gitVars, repos, worktrees, cmd, calls, before,
                    atCall, hooked, wt_id, opsDone, envDone, restVars >>

\* the post_create hook runs after the worktree exists and is recorded
PostCreateHook ==
    /\ pc = "post_create"
    /\ \E outcome \in HookOutcomes :
         /\ hooked' = [hooked EXCEPT !.post = outcome]
         /\ IF PostHookReported(outcome)
              THEN Return("PostHookFailed")
              ELSE Return("ok")
    /\ UNCHANGED << gitVars, storeVars, cmd, calls, before, atCall, wt_id,
                    opsDone, envDone, restVars >>

\* ---- trench remove <identifier> [--prune] -------------------------------

StartRemove(identifier, prune) ==
    /\ pc = "idle"
    /\ opsDone < MaxOps
    /\ cmd' = [kind |-> "remove", branch |-> identifier, base |-> "none",
               prune |-> prune]
    /\ before' = Snapshot
    /\ atCall' = NoSnapshot
    /\ hooked' = NoHooks
    /\ calls' = << >>
    /\ ret' = "none"
    /\ wt_id' = 0
    /\ pc' = "rm_lookup"
    /\ UNCHANGED << gitVars, storeVars, opsDone, envDone, restVars >>

\* db.find_worktree_by_identifier(repo_id, identifier): the id of the row of
\* that repo, not removed, whose name or branch is the identifier; 0 if none
FindWorktreeByIdentifier(repo_id, identifier) ==
    LET hits == { i \in DOMAIN worktrees :
                    /\ worktrees[i].repo_id = repo_id
                    /\ worktrees[i].branch = identifier
                    /\ ~IsSome(worktrees[i].removed_at) }
    IN  IF hits = {} THEN 0
        ELSE CHOOSE i \in hits : \A j \in hits : i <= j

\* remove: get_repo_by_path ("repository not tracked by trench"), then the
\* identifier is resolved ("worktree not found")
RemoveLookup ==
    /\ pc = "rm_lookup"
    /\ LET repo_id == GetRepoByPath(RepoPath)
           found == FindWorktreeByIdentifier(repo_id, cmd.branch)
       IN  IF repo_id = 0
             THEN Return("NotTracked") /\ wt_id' = wt_id
             ELSE IF found = 0
                    THEN Return("NotFound") /\ wt_id' = wt_id
                    ELSE pc' = "pre_remove" /\ ret' = ret /\ wt_id' = found
    /\ UNCHANGED << gitVars, storeVars, cmd, calls, before, atCall, hooked, opsDone,
                    envDone, restVars >>

\* the pre_remove hook runs before anything is removed
PreRemoveHook ==
    /\ pc = "pre_remove"
    /\ \E outcome \in HookOutcomes :
         /\ hooked' = [hooked EXCEPT !.pre = outcome]
         /\ IF PreHookCancels(outcome)
              THEN Return("PreHookFailed")
              ELSE pc' = "rm_disk" /\ ret' = ret
    /\ UNCHANGED << gitVars, storeVars, cmd, calls, before, atCall, wt_id,
                    opsDone, envDone, restVars >>

\* remove_worktree prunes every worktree entry whose directory is missing
Pruned(names, paths) == { n \in names : TargetPath(n) \in paths }

\* how remove_worktree ends: Ok; remove_dir_all fails and the directory
\* stays; Repository::open fails once the directory is gone; listing or
\* pruning the worktree entries fails ("unpruned"), which `if let Ok` and
\* `let _ =` drop, and the call returns Ok
RemoveOutcomes == {"ok", "io", "open", "unpruned"}

\* a removal that deletes the branch of the worktree as well
BranchesWithoutRemoved(branches, branch) == branches \ {branch}

\* the local branches once remove_worktree has deleted the directory: it
\* calls nothing that writes refs/heads
BranchesAfterRemove(branches, branch) == branches

\* a remove_worktree that goes on without looking at the path
PathAssumedToExist(path) == TRUE

\* remove_worktree: `worktree_path.exists()`
PathExists(path) == path \in fsPaths

\* remove: `if worktree_path.exists() { git::remove_worktree(..)? } else {
\* warning }`; remove_worktree deletes the directory tree, then prunes; the
\* branch is kept
RemoveCheckExists ==
    /\ pc = "rm_disk"
    /\ IF worktrees[wt_id].path \in fsPaths
         THEN pc' = "rm_call" /\ calls' = Append(calls, "exists")
         ELSE pc' = "rm_update" /\ calls' = Append(calls, "missing")
    /\ UNCHANGED << gitVars, storeVars, cmd, ret, before, atCall, hooked,
                    wt_id, opsDone, envDone, restVars >>

\* git::remove_worktree(repo, worktree_path)
RemoveFromDisk ==
    /\ pc = "rm_call"
    /\ LET path == worktrees[wt_id].path
           branch == worktrees[wt_id].branch
       IN  IF PathExists(path)
             THEN \E outcome \in RemoveOutcomes :
                    /\ fsPaths' = IF outcome = "io" THEN fsPaths
                                  ELSE fsPaths \ {path}
                    /\ gitWorktrees' =
                         IF outcome = "ok"
                           THEN Pruned(gitWorktrees, fsPaths \ {path})
                           ELSE gitWorktrees
                    /\ localBranches' =
                         IF outcome = "io" THEN localBranches
                         ELSE BranchesAfterRemove(localBranches, branch)
                    /\ IF outcome \in {"ok", "unpruned"}
                         THEN pc' = "rm_update" /\ ret' = ret
                         ELSE Return(IF outcome = "io" THEN "Io" ELSE "Git")
                    /\ calls' = Append(calls,
                         IF path \notin fsPaths THEN "call_absent"
                         ELSE IF outcome = "unpruned" THEN "prune_failed"
                         ELSE "call_present")
             ELSE /\ Return("WorktreeNotFound")
                  /\ calls' = Append(calls, "call_absent")
                  /\ UNCHANGED << fsPaths, gitWorktrees, localBranches >>
    /\ UNCHANGED << remoteRefs, serverBranches, hasOrigin,
                    storeVars, cmd, before, atCall, hooked, wt_id, opsDone,
                    envDone, restVars >>

\* somebody deletes the directory of the worktree while it is being removed
DirectoryDeleted ==
    /\ pc \in {"rm_disk", "rm_call"}
    /\ envDone < MaxEnv
    /\ worktrees[wt_id].path \in fsPaths
    /\ fsPaths' = fsPaths \ {worktrees[wt_id].path}
    /\ envDone' = envDone + 1
    /\ UNCHANGED << localBranches, remoteRefs, serverBranches, hasOrigin,
                    gitWorktrees, storeVars, cmdVars, restVars >>

\* remove: db.update_worktree(wt.id, WorktreeUpdate { removed_at: now, .. })
UpdateRemovedAt ==
    /\ pc = "rm_update"
    /\ LET update == [NoUpdate EXCEPT !.removed_at = Some(Some(Now))]
       IN  /\ worktrees' = UpdateWorktreeRows(wt_id, update)
           /\ IF UpdateWorktreeResult(wt_id, update) = "ok"
                THEN pc' = "removed_event" /\ ret' = ret
                ELSE Return("Db")
    /\ UNCHANGED << gitVars, repos, events, cmd, calls, before, atCall, hooked,
                    wt_id, opsDone, envDone, restVars >>

\* remove: db.insert_event(repo.id, Some(wt.id), "removed", None)
InsertRemovedEvent ==
    /\ pc = "removed_event"
    /\ events' = InsertEventRows(worktrees[wt_id].repo_id, Some(wt_id),
                                 "removed")
    /\ IF InsertEventOk(worktrees[wt_id].repo_id, Some(wt_id))
         THEN pc' = (IF cmd.prune THEN "rm_prune" ELSE "post_remove")
              /\ ret' = ret
         ELSE Return("Db")
    /\ UNCHANGED << gitVars, repos, worktrees, cmd, calls, before,
                    atCall, hooked, wt_id, opsDone, envDone, restVars >>

\* remove --prune: git::delete_remote_branch(repo, "origin", branch); a
\* branch the remote does not have is a warning, any other failure an error
PruneRemote ==
    /\ pc = "rm_prune"
    /\ LET b == worktrees[wt_id].branch
       IN  IF ~hasOrigin
             THEN /\ Return("Git")
                  /\ UNCHANGED << serverBranches, remoteRefs >>
             ELSE /\ serverBranches' = serverBranches \ {b}
                  /\ remoteRefs' = IF b \in serverBranches
                                     THEN remoteRefs \ {b}
                                     ELSE remoteRefs
                  /\ pc' = "post_remove"
                  /\ ret' = ret
    /\ UNCHANGED << localBranches, hasOrigin, fsPaths, gitWorktrees,
                    storeVars, cmd, calls, before, atCall, hooked, wt_id, opsDone,
                    envDone, restVars >>

\* the post_remove hook runs after the worktree is gone and recorded so
PostRemoveHook ==
    /\ pc = "post_remove"
    /\ \E outcome \in HookOutcomes :
         /\ hooked' = [hooked EXCEPT !.post = outcome]
         /\ IF PostHookReported(outcome)
              THEN Return("PostHookFailed")
              ELSE Return("ok")
    /\ UNCHANGED << gitVars, storeVars, cmd, calls, before, atCall, wt_id,
                    opsDone, envDone, restVars >>

\* main has reported the result; the next command can start
Finish ==
    /\ pc = "done"
    /\ pc' = "idle"
    /\ opsDone' = opsDone + 1
    /\ cmd' = NoCmd
    /\ ret' = "none"
    /\ calls' = << >>
    /\ before' = NoSnapshot
    /\ atCall' = NoSnapshot
    /\ hooked' = NoHooks
    /\ wt_id' = 0
    /\ UNCHANGED << gitVars, storeVars, envDone, restVars >>

\* ------------------------------------------------------------------------
\* The Database driven call by call, as the tests of state/mod.rs do
\* ------------------------------------------------------------------------

\* a second repository root
OtherRepoPath == << "other" >>

RepoPaths == {RepoPath, OtherRepoPath}

\* ids a caller may pass: those of the rows and one that has no row
IdsFor(table) == 1..(Len(table) + 1)

\* Option<Option<T>> of a WorktreeUpdate field
TwoLevel(values) == {None} \cup { Some(x) : x \in {None} \cup { Some(v) : v \in values } }

\* the values a field of WorktreeUpdate takes
UpdateValues(f) ==
    IF f = "managed" THEN {None, Some(TRUE), Some(FALSE)}
    ELSE IF f = "base_branch" THEN TwoLevel({"main"})
    ELSE TwoLevel({Now})

\* the updates the callers make: none, one or two fields named
Updates ==
    UNION { { [NoUpdate EXCEPT ![f] = x, ![g] = y] :
                x \in UpdateValues(f), y \in UpdateValues(g) } :
            f \in UpdateFields, g \in UpdateFields }

\* a call starts: remember the tables and the call
DbCall(call) ==
    /\ dbCalls < MaxDbCalls
    /\ dbCalls' = dbCalls + 1
    /\ dbPrev' = StoreSnapshot
    /\ dbCall' = call
    /\ UNCHANGED << gitVars, cmdVars, envDone, hookVars, callVars >>

\* a call on the open Database
DbQuery(call) == DbCall(call) /\ UNCHANGED fileVars

DbInsertRepo(path) ==
    /\ DbQuery([op |-> "insert_repo", path |-> path])
    /\ repos' = InsertRepoRows(path)
    /\ dbRet' = IF InsertRepoOk(path) THEN "ok" ELSE "Constraint"
    /\ UNCHANGED << worktrees, events >>

DbInsertWorktree(repo_id, branch) ==
    /\ DbQuery([op |-> "insert_worktree", repo_id |-> repo_id,
               branch |-> branch, path |-> TargetPath(branch)])
    /\ worktrees' = InsertWorktreeRows(repo_id, branch, TargetPath(branch),
                                       Some("main"))
    /\ dbRet' = IF InsertWorktreeOk(repo_id, TargetPath(branch))
                  THEN "ok" ELSE "Constraint"
    /\ UNCHANGED << repos, events >>

DbUpdateWorktree(id, update) ==
    /\ DbQuery([op |-> "update_worktree", id |-> id, update |-> update])
    /\ worktrees' = UpdateWorktreeRows(id, update)
    /\ dbRet' = UpdateWorktreeResult(id, update)
    /\ UNCHANGED << repos, events >>

DbInsertEvent(repo_id, worktree_id, event_type) ==
    /\ DbQuery([op |-> "insert_event", repo_id |-> repo_id,
               worktree_id |-> worktree_id, event_type |-> event_type])
    /\ events' = InsertEventRows(repo_id, worktree_id, event_type)
    /\ dbRet' = IF InsertEventOk(repo_id, worktree_id)
                  THEN "ok" ELSE "Constraint"
    /\ UNCHANGED << repos, worktrees >>

StoreNext ==
    \/ \E path \in RepoPaths : DbInsertRepo(path)
    \/ \E repo_id \in IdsFor(repos), branch \in NewBranches :
          DbInsertWorktree(repo_id, branch)
    \/ \E id \in IdsFor(worktrees), update \in Updates :
          DbUpdateWorktree(id, update)
    \/ \E repo_id \in IdsFor(repos),
          worktree_id \in {None} \cup { Some(i) : i \in IdsFor(worktrees) },
          event_type \in {"created", "removed"} :
          DbInsertEvent(repo_id, worktree_id, event_type)

\* ------------------------------------------------------------------------
\* Database::open on a file that another build of trench may have migrated
\* ------------------------------------------------------------------------

\* to_latest fails with DatabaseTooFarAhead
IsDbTooFarAhead(version) == version > LatestMigration

\* a backup taken once the fresh database is in place
CopiedAfterRecreate(files, ts, content) ==
    [t \in DOMAIN files \cup {ts} |->
        IF t = ts THEN [version |-> LatestMigration, store |-> NoStore]
        ELSE files[t]]

\* std::fs::rename(path, backup): the backup files afterwards; a file that
\* had the name is replaced
RenamedToBackup(files, ts, content) ==
    [t \in DOMAIN files \cup {ts} |-> IF t = ts THEN content ELSE files[t]]

\* Database::open(path)
OpenDb ==
    /\ DbCall([op |-> "open", ts |-> clock, version |-> dbVersion,
               backups |-> backups])
    /\ dbRet' = "ok"
    /\ dbVersion' = LatestMigration
    /\ clock' = clock
    /\ IF IsDbTooFarAhead(dbVersion)
         THEN /\ backups' = RenamedToBackup(backups, clock,
                               [version |-> dbVersion, store |-> StoreSnapshot])
              /\ repos' = << >>
              /\ worktrees' = << >>
              /\ events' = << >>
         ELSE UNCHANGED << backups, storeVars >>

\* a newer build of trench migrates the file to its schema
NewerBuildMigrates ==
    /\ ~IsDbTooFarAhead(dbVersion)
    /\ dbVersion' = LatestMigration + 1
    /\ dbCall' = [op |-> "migrated by a newer build"]
    /\ dbRet' = "none"
    /\ UNCHANGED << gitVars, storeVars, cmdVars, envDone, hookVars, callVars, dbPrev,
                    dbCalls, backups, clock >>

\* a second passes
Tick ==
    /\ clock < MaxTicks
    /\ clock' = clock + 1
    /\ UNCHANGED << gitVars, storeVars, cmdVars, envDone, hookVars, callVars, dbCall,
                    dbRet, dbPrev, dbCalls, dbVersion, backups >>

OpenNext ==
    \/ OpenDb
    \/ NewerBuildMigrates
    \/ Tick
    \/ \E path \in RepoPaths : DbInsertRepo(path)
    \/ \E repo_id \in IdsFor(repos), branch \in NewBranches :
          DbInsertWorktree(repo_id, branch)

\* no hook is running
HookQuiet ==
    /\ hook = [copy |-> FALSE, hasRun |-> FALSE, run |-> << >>, shell |-> FALSE]
    /\ hpc = "done"
    /\ stepsRun = << >>
    /\ stepFailed = "none"
    /\ commands = << >>
    /\ idx = 1
    /\ rpc = "idle"
    /\ executed = << >>
    /\ stdout_buf = << >>
    /\ stderr_buf = << >>
    /\ stdout_done = FALSE
    /\ stderr_done = FALSE
    /\ readersOpen = FALSE
    /\ runRet = NoReturn
    /\ child = NoChild
    /\ started = << >>
    /\ running = {}
    /\ eofReports = [s \in Streams |-> 0]

\* no command is running and nothing is tracked
WorldAtRest ==
    /\ localBranches = {"main"}
    /\ hasOrigin = FALSE
    /\ serverBranches = {}
    /\ remoteRefs = {}
    /\ fsPaths = {}
    /\ gitWorktrees = {}
    /\ repos = << >>
    /\ worktrees = << >>
    /\ events = << >>
    /\ cmd = NoCmd
    /\ pc = "idle"
    /\ ret = "none"
    /\ calls = << >>
    /\ before = NoSnapshot
    /\ atCall = NoSnapshot
    /\ hooked = NoHooks
    /\ wt_id = 0
    /\ opsDone = 0
    /\ envDone = 0
    /\ DbQuiet

WorldQuiet == WorldAtRest /\ CallQuiet

Init == WorldInit /\ HookQuiet

Next ==
    \/ \E b \in NewBranches, base \in BranchNames : StartCreate(b, base)
    \/ PreCreateHook
    \/ CreateParentDir
    \/ CwOpen
    \/ CwLocalCheck
    \/ CwFetch
    \/ CwRemoteCheck
    \/ CwResolveBase
    \/ CwBranch
    \/ CwWorktreeAdd
    \/ CwCleanup
    \/ GetOrInsertRepo
    \/ InsertWorktree
    \/ InsertCreatedEvent
    \/ PostCreateHook
    \/ \E id \in NewBranches, prune \in BOOLEAN : StartRemove(id, prune)
    \/ RemoveLookup
    \/ PreRemoveHook
    \/ RemoveCheckExists
    \/ RemoveFromDisk
    \/ DirectoryDeleted
    \/ UpdateRemovedAt
    \/ InsertRemovedEvent
    \/ PruneRemote
    \/ PostRemoveHook
    \/ Finish
    \/ \E b \in BranchNames : RemotePush(b)
    \/ \E b \in BranchNames : RemoteDelete(b)

Spec == Init /\ [][Next]_vars

\* the hook engine on its own: no command changes the repository meanwhile
InitHook == HookInit /\ WorldQuiet

SpecHook == InitHook /\ [][HookNext]_vars

\* the Database on its own, an empty one to start with
InitStore == WorldQuiet /\ HookQuiet

SpecStore == InitStore /\ [][StoreNext]_vars

\* Database::open and what is written between two opens
SpecOpen == InitStore /\ [][OpenNext]_vars

\* execute_run_step on its own
InitRun == RunInit /\ WorldQuiet

FairSpecRun == InitRun /\ [][RunNext]_vars /\ RunFairness

\* ------------------------------------------------------------------------
\* Hook engine: properties
\* ------------------------------------------------------------------------

Last(seq) == seq[Len(seq)]

IsPrefix(a, b) == Len(a) <= Len(b) /\ SubSeq(b, 1, Len(a)) = a

\* the configured steps of a hook, in execution order
ConfiguredSteps(h) == SelectSeq(StepOrder, LAMBDA step : StepPresent(h, step))

\* the commands of the current run step that were spawned, in spawn order
StartedOf(cmds) ==
    SelectSeq(started, LAMBDA c : \E i \in DOMAIN cmds : cmds[i] = c)

\* C6: within one hook the steps that run are the configured ones among copy,
\* run, shell, started in that order and each at most once (the steps run so
\* far are a prefix of the configured steps); a failed step is the last step
\* the hook ever starts (once a run or shell step has returned an error the
\* hook is either about to take that return or is over), and a hook that ends
\* without failure ran them all.
C6_StepOrder ==
    /\ IsPrefix(stepsRun, ConfiguredSteps(hook))
    /\ stepFailed # "none" =>
         /\ stepsRun # << >>
         /\ Last(stepsRun) = stepFailed
         /\ hpc = "done"
    /\ (hpc = "done" /\ stepFailed = "none") => stepsRun = ConfiguredSteps(hook)
    /\ (rpc = "returned" /\ runRet.kind # "ok") => Last(stepsRun) = hpc
    /\ runRet.kind \notin {"ok", "none"} =>
         \/ rpc = "returned" /\ hpc \in {"run", "shell"}
         \/ rpc = "idle" /\ hpc = "done" /\ stepFailed = Last(stepsRun)
    /\ started # << >> => \E i \in DOMAIN stepsRun : stepsRun[i] \in {"run", "shell"}

\* the run step of a hook with all three steps failed: shell never started
C6_Witness ==
    /\ hook.copy /\ hook.hasRun /\ hook.shell
    /\ stepFailed = "run"
    /\ stepsRun = << "copy", "run" >>
    /\ hpc = "done"

\* C7: execute_run_step stops at the first command whose exit code is not
\* zero: an entry of `executed` with a non-zero code is its last entry and the
\* function has returned RunStepError; that error names the failing command
\* and its exit code, its results are `executed`, which holds one entry per
\* command of the list up to the failing one, in list order, and exactly
\* those commands were ever spawned.
C7_FailFast ==
    /\ \A i \in DOMAIN executed :
         /\ executed[i].command = commands[i]
         /\ executed[i].exit_code # 0 =>
              /\ i = Len(executed)
              /\ rpc \in {"returned", "idle"}
              /\ runRet.kind = "RunStepError"
    /\ runRet.kind = "RunStepError" =>
         /\ executed # << >>
         /\ runRet.results = executed
         /\ runRet.command = commands[Len(executed)]
         /\ runRet.exit_code = Last(executed).exit_code
         /\ runRet.exit_code # 0
         /\ StartedOf(commands) = SubSeq(commands, 1, Len(executed))

\* the first of two commands failed and the second was never spawned
C7_Witness ==
    /\ runRet.kind = "RunStepError"
    /\ Len(commands) = 2
    /\ Len(executed) = 1
    /\ hpc = "done"
    /\ started = << RunCommand(1) >>

ChildBlocked ==
    /\ child.alive
    /\ child.want # "none"
    /\ Len(child.pipe[child.want]) >= PipeCap

\* the loop `while !stdout_done || !stderr_done` is over for the current command
DrainOver == rpc \in {"wait", "returned"} \/ (rpc = "spawn" /\ idx > 1)

\* C9 as claimed, its last part: the drain loop ends exactly when both streams
\* have reported end-of-stream.
C9_AsClaimed ==
    /\ rpc = "drain" => ~(stdout_done /\ stderr_done)
    /\ (DrainOver /\ runRet.kind # "spawn_failed") =>
         (stdout_done /\ stderr_done)

\* each stream reports end-of-stream at most once, and its flag says so
PolledUntilEof ==
    /\ eofReports["stdout"] = (IF stdout_done THEN 1 ELSE 0)
    /\ eofReports["stderr"] = (IF stderr_done THEN 1 ELSE 0)

\* the loop runs while a stream has not reported end-of-stream, and it is left
\* only with both streams at end-of-stream or by a failed read
DrainEnds ==
    /\ rpc = "drain" => ~(stdout_done /\ stderr_done)
    /\ rpc = "wait" => (stdout_done /\ stderr_done)
    /\ (rpc = "returned" /\ ~(stdout_done /\ stderr_done)) =>
         runRet.kind \in {"spawn_failed", "read_failed"}

\* C9 amended: the two pipes are drained concurrently, so a process that has
\* issued a write to a full pipe always gets to complete it or is ended by a
\* broken pipe; each stream is polled only until it reports end-of-stream;
\* and the drain loop ends when both streams have reported end-of-stream or,
\* before that, when a read fails (the run step then returns the error).
C9_ConcurrentDrain ==
    /\ [](PolledUntilEof /\ DrainEnds)
    /\ ChildBlocked ~> ~ChildBlocked

\* the process is blocked on stderr while stdout is still open and silent
C9_Witness ==
    /\ ChildBlocked
    /\ child.want = "stderr"
    /\ child.pipe["stdout"] = << >>
    /\ child.open["stdout"]
    /\ rpc = "drain"

\* C10: per command the order is end-of-stream on both pipes, then the exit
\* status, then the next spawn: the status is awaited only with both streams
\* done, a command is spawned only when every earlier command of the list has
\* its entry in `executed` and no process is running, at most one process runs
\* at any time, and commands are spawned in list order.
C10_Sequential ==
    /\ rpc = "wait" => (stdout_done /\ stderr_done)
    /\ rpc = "spawn" => (Len(executed) = idx - 1 /\ running = {})
    /\ Cardinality(running) <= 1
    /\ IsPrefix(StartedOf(commands), commands)
    /\ Len(StartedOf(commands)) <= Len(executed) + 1
    /\ \A i \in DOMAIN executed : executed[i].command = StartedOf(commands)[i]

\* the second command of a list runs after the first was collected
C10_Witness ==
    /\ Len(started) = 2
    /\ Len(executed) = 1
    /\ child.alive
    /\ running = {2}

\* ------------------------------------------------------------------------
\* Commands: properties
\* ------------------------------------------------------------------------

Range(seq) == { seq[i] : i \in DOMAIN seq }

\* the create command has returned to main
CreateReturned == cmd.kind = "create" /\ pc = "done"

\* the remove command has returned to main
RemoveReturned == cmd.kind = "remove" /\ pc = "done"

\* create_worktree was entered by the command in progress
InCreateWorktree == cmd.kind = "create" /\ atCall # NoSnapshot

\* the store is as it was when the command started
StoreAsBefore ==
    /\ repos = before.repos
    /\ worktrees = before.worktrees
    /\ events = before.events

\* since create_worktree was entered: no local branch, no path and no
\* worktree entry was created or removed, and the store was not written
NothingCreatedSinceCall ==
    /\ localBranches = atCall.localBranches
    /\ fsPaths = atCall.fsPaths
    /\ gitWorktrees = atCall.gitWorktrees
    /\ repos = atCall.repos /\ worktrees = atCall.worktrees
    /\ events = atCall.events

\* C1: whenever create_worktree created the new local branch and adding the
\* worktree then failed, the branch does not exist when the error is
\* returned: the local branches are those of before the call.
C1_AsClaimed ==
    (/\ CreateReturned
     /\ "branch" \in Range(calls)
     /\ "worktree_failed" \in Range(calls))
    => /\ ret = "Git"
       /\ cmd.branch \notin localBranches
       /\ localBranches = atCall.localBranches

\* the three refusals create_worktree makes before it creates anything
Refusals ==
    {"BranchAlreadyExists", "RemoteBranchAlreadyExists", "BaseBranchNotFound"}

RefusedEarly == CreateReturned /\ ret \in Refusals

\* C2 as claimed: when the create command returns one of the three refusals
\* nothing at all has been created or changed since the command started: no
\* branch or ref, no directory, no store row.
C2_AsClaimed ==
    RefusedEarly =>
      /\ localBranches = before.localBranches
      /\ remoteRefs = before.remoteRefs
      /\ fsPaths = before.fsPaths
      /\ gitWorktrees = before.gitWorktrees
      /\ StoreAsBefore

\* C2 as amended: when the create command returns one of the three refusals,
\* no local branch, no worktree directory or entry and no store row has been
\* created or changed; create_worktree itself created no path at all; the
\* only changes since the command started are the parent directory of the
\* worktree path, which the command makes first, and the remote-tracking
\* refs, which a successful fetch has refreshed unless the refusal is
\* BranchAlreadyExists.
C2_NothingCreated ==
    RefusedEarly =>
      /\ localBranches = before.localBranches
      /\ gitWorktrees = before.gitWorktrees
      /\ StoreAsBefore
      /\ NothingCreatedSinceCall
      /\ fsPaths = before.fsPaths \cup {ParentDir}
      /\ ret = "BranchAlreadyExists" => remoteRefs = before.remoteRefs
      /\ remoteRefs # before.remoteRefs => "fetch_ok" \in Range(calls)

\* a refusal after the command made the parent directory and the fetch
\* changed the remote-tracking refs
C2_Witness ==
    /\ RefusedEarly
    /\ ret = "BaseBranchNotFound"
    /\ ParentDir \notin before.fsPaths
    /\ ParentDir \in fsPaths
    /\ remoteRefs # before.remoteRefs

\* C3: when the requested branch exists locally, create_worktree returns
\* BranchAlreadyExists right after opening the repository and looking the
\* branch up: no fetch and no remote-tracking lookup was made, and no branch,
\* path, ref or store row has changed since the call was entered.
C3_LocalConflictFirst ==
    /\ (/\ InCreateWorktree
        /\ cmd.branch \in atCall.localBranches
        /\ Len(calls) >= 2)
       => /\ pc = "done"
          /\ ret = "BranchAlreadyExists"
    /\ (CreateReturned /\ ret = "BranchAlreadyExists")
       => /\ cmd.branch \in atCall.localBranches
          /\ calls = << "open", "find_branch_local" >>
          /\ NothingCreatedSinceCall
          /\ remoteRefs = atCall.remoteRefs

\* the branch exists locally and on the remote as well; the cached refs are
\* not those a fetch would have left
C3_Witness ==
    /\ CreateReturned
    /\ ret = "BranchAlreadyExists"
    /\ hasOrigin
    /\ cmd.branch \in serverBranches
    /\ remoteRefs # serverBranches

\* the entries of `calls` a fetch attempt leaves
FetchCalls == {"fetch_ok", "fetch_failed", "no_origin"}

\* create_worktree has made its remote-tracking lookup
RemoteChecked == InCreateWorktree /\ Len(calls) >= 4

\* C4: the remote-tracking lookup of create_worktree comes right after the
\* fetch attempt and looks at the refs as the fetch left them: the call
\* returns RemoteBranchAlreadyExists exactly when origin/<branch> exists
\* then, and has created nothing; a ref that was cached when the call was
\* entered and that a successful fetch pruned does not stop the call, which
\* goes on to resolve the base.
C4_RemoteCheckAfterRefresh ==
    /\ RemoteChecked =>
         /\ calls[3] \in FetchCalls
         /\ calls[4] = "find_branch_remote"
         /\ (ret = "RemoteBranchAlreadyExists") <=> (cmd.branch \in remoteRefs)
    /\ (InCreateWorktree /\ ret = "RemoteBranchAlreadyExists") =>
         /\ pc = "done"
         /\ Len(calls) = 4
         /\ NothingCreatedSinceCall
    /\ (/\ RemoteChecked
        /\ cmd.branch \in atCall.remoteRefs
        /\ cmd.branch \notin remoteRefs) =>
         /\ calls[3] = "fetch_ok"
         /\ pc = "done" => Len(calls) >= 5 /\ calls[5] = "resolve_base"

\* the branch was deleted on the remote, only the stale ref remained, and
\* the create command succeeded
C4_Witness ==
    /\ CreateReturned
    /\ ret = "ok"
    /\ cmd.branch \in before.remoteRefs
    /\ cmd.branch \notin remoteRefs
    /\ cmd.branch \notin serverBranches
    /\ cmd.branch \in localBranches
    /\ TargetPath(cmd.branch) \in fsPaths

\* the creation the command was asked for is complete and recorded
CreationInPlace ==
    /\ cmd.branch \in localBranches
    /\ cmd.branch \in gitWorktrees
    /\ TargetPath(cmd.branch) \in fsPaths
    /\ Len(worktrees) = Len(before.worktrees) + 1
    /\ Last(worktrees).branch = cmd.branch
    /\ ~IsSome(Last(worktrees).removed_at)
    /\ Len(events) = Len(before.events) + 1
    /\ Last(events).event_type = "created"
    /\ Last(events).worktree_id = Some(Len(worktrees))

\* the removal the command was asked for is complete and recorded
RemovalInPlace ==
    /\ worktrees[wt_id].path \notin fsPaths
    /\ ("exists" \in Range(calls) /\ "prune_failed" \notin Range(calls)) =>
         worktrees[wt_id].branch \notin gitWorktrees
    /\ IsSome(worktrees[wt_id].removed_at)
    /\ Len(events) = Len(before.events) + 1
    /\ Last(events).event_type = "removed"
    /\ Last(events).worktree_id = Some(wt_id)

\* C5: when the pre_create or pre_remove hook fails the command returns the
\* failure and the repository, the file system and the store are as they
\* were when the command started; when the post_create or post_remove hook
\* fails the command returns the failure and the creation or removal is
\* complete and stays.
C5_HookFailure ==
    /\ hooked.pre = "failed" =>
         /\ pc = "done"
         /\ ret = "PreHookFailed"
         /\ Snapshot = before
    /\ hooked.post = "failed" =>
         /\ pc = "done"
         /\ ret = "PostHookFailed"
         /\ cmd.kind = "create" => CreationInPlace
         /\ cmd.kind = "remove" => RemovalInPlace
    /\ ret \in {"PreHookFailed", "PostHookFailed"} =>
         (hooked.pre = "failed" \/ hooked.post = "failed")

\* the pre_remove hook of a worktree that exists failed: it is still there
C5_Witness ==
    /\ RemoveReturned
    /\ hooked.pre = "failed"
    /\ wt_id # 0
    /\ worktrees[wt_id].path \in fsPaths
    /\ ~IsSome(worktrees[wt_id].removed_at)

\* ------------------------------------------------------------------------
\* State store: properties
\* ------------------------------------------------------------------------

\* the rows whose removed_at is set
RemovedRows == { i \in DOMAIN worktrees : IsSome(worktrees[i].removed_at) }

\* C11 (as claimed): after any sequence of store operations
\* list_worktrees(repo) returns no worktree whose removed_at is set, while
\* the row is still returned by get_worktree and its events are still
\* counted.
C11_AsClaimed ==
    \A i \in RemovedRows :
        /\ i \notin ListWorktrees(worktrees[i].repo_id)
        /\ GetWorktree(i) = Some(worktrees[i])
        /\ CountEvents(i, None) =
             Cardinality({ e \in DOMAIN events : events[e].worktree_id = Some(i) })

DuplicatePathInsert ==
    /\ dbCall.op = "insert_worktree"
    /\ \E i \in DOMAIN dbPrev.worktrees :
         dbPrev.worktrees[i].path = dbCall.path

\* C13: no two worktree rows have the same path, in the same repo or in
\* different repos; an insert_worktree whose path some row already has is
\* rejected and leaves the three tables as they were.
C13_UniquePath ==
    /\ \A i, j \in DOMAIN worktrees :
         worktrees[i].path = worktrees[j].path => i = j
    /\ DuplicatePathInsert => dbRet # "ok" /\ StoreSnapshot = dbPrev

\* a row of one repo has the path and the insert is for another, existing
\* repo
C13_Witness ==
    /\ DuplicatePathInsert
    /\ dbCall.repo_id \in DOMAIN dbPrev.repos
    /\ \E i \in DOMAIN dbPrev.worktrees :
         /\ dbPrev.worktrees[i].path = dbCall.path
         /\ dbPrev.worktrees[i].repo_id # dbCall.repo_id
    /\ dbRet = "Constraint"

\* the events of a worktree in a table of events, by id
EventsOf(table, worktree_id) ==
    { e \in DOMAIN table : table[e].worktree_id = Some(worktree_id) }

\* C14: the event log is append-only: an event that was stored when a call
\* was made is stored unchanged under the same id when the call returns, so
\* count_events of a worktree never decreases, also once the worktree is
\* removed.
C14_AppendOnly ==
    /\ IsPrefix(dbPrev.events, events)
    /\ \A i \in DOMAIN worktrees :
         /\ Cardinality(EventsOf(dbPrev.events, i)) <= CountEvents(i, None)
         /\ \A t \in {"created", "removed"} :
              Cardinality({ e \in EventsOf(dbPrev.events, i) :
                              dbPrev.events[e].event_type = t })
                <= CountEvents(i, Some(t))

\* a worktree with a stored event was removed by the last call, and the
\* event is still counted
C14_Witness ==
    /\ dbCall.op = "update_worktree"
    /\ dbRet = "ok"
    /\ dbCall.id \in DOMAIN worktrees
    /\ ~IsSome(dbPrev.worktrees[dbCall.id].removed_at)
    /\ IsSome(worktrees[dbCall.id].removed_at)
    /\ EventsOf(dbPrev.events, dbCall.id) # {}
    /\ CountEvents(dbCall.id, None) > 0

\* the last call was insert_event with a repo id and the id of a worktree
\* row of another repo
MismatchedEventInsert ==
    /\ dbCall.op = "insert_event"
    /\ IsSome(dbCall.worktree_id)
    /\ dbCall.worktree_id[1] \in DOMAIN dbPrev.worktrees
    /\ dbPrev.worktrees[dbCall.worktree_id[1]].repo_id # dbCall.repo_id

\* C15: insert_event with a repo id and a worktree id is rejected, and
\* writes no event, when the worktree is not a row of that repo; hence every
\* stored event that names a worktree names the repo that owns it.
C15_EventOwner ==
    /\ MismatchedEventInsert => dbRet # "ok" /\ events = dbPrev.events
    /\ \A e \in DOMAIN events :
         IsSome(events[e].worktree_id) =>
            /\ events[e].worktree_id[1] \in DOMAIN worktrees
            /\ worktrees[events[e].worktree_id[1]].repo_id = events[e].repo_id

\* both the repo and the worktree exist, the worktree in another repo, and
\* the call was refused
C15_Witness ==
    /\ MismatchedEventInsert
    /\ dbCall.repo_id \in DOMAIN repos
    /\ dbRet = "Constraint"

\* the nullable columns of a worktree row an update can name
NullableFields == UpdateFields \ {"managed"}

\* the values the model has for a nullable column
ValuesOf(f) == IF f = "base_branch" THEN {"main"} ELSE {Now}

\* the last call was update_worktree on a row that exists, and it returned Ok
UpdatedExisting ==
    /\ dbCall.op = "update_worktree"
    /\ dbCall.id \in DOMAIN dbPrev.worktrees
    /\ dbRet = "ok"

\* C16: update_worktree(id, update) changes exactly the fields the update
\* names and leaves every other field of that row, every other row and the
\* other tables unchanged; a nullable field is left unchanged (None), set
\* to NULL (Some(None)) or set to a value (Some(Some(v))).
C16_PartialUpdate ==
    UpdatedExisting =>
        LET old == dbPrev.worktrees[dbCall.id]
            new == worktrees[dbCall.id]
            u   == dbCall.update
        IN  /\ DOMAIN worktrees = DOMAIN dbPrev.worktrees
            /\ \A j \in DOMAIN worktrees \ {dbCall.id} :
                 worktrees[j] = dbPrev.worktrees[j]
            /\ repos = dbPrev.repos
            /\ events = dbPrev.events
            /\ \A f \in DOMAIN old \ UpdateFields : new[f] = old[f]
            /\ \A f \in NullableFields :
                 /\ u[f] = None => new[f] = old[f]
                 /\ u[f] = Some(None) => new[f] = None
                 /\ \A v \in ValuesOf(f) :
                      u[f] = Some(Some(v)) => new[f] = Some(v)
            /\ u.managed = None => new.managed = old.managed
            /\ \A b \in BOOLEAN : u.managed = Some(b) => new.managed = b

\* one update set a nullable field that had a value to NULL and another
\* field to a value, and left the rest of the row as it was
C16_Witness ==
    /\ UpdatedExisting
    /\ dbPrev.worktrees[dbCall.id].base_branch = Some("main")
    /\ dbCall.update.base_branch = Some(None)
    /\ worktrees[dbCall.id].base_branch = None
    /\ dbCall.update.last_accessed = Some(Some(Now))
    /\ worktrees[dbCall.id].last_accessed = Some(Now)
    /\ worktrees[dbCall.id].adopted_at = dbPrev.worktrees[dbCall.id].adopted_at

\* the last call was update_worktree with an id no row has
UpdatedMissing ==
    /\ dbCall.op = "update_worktree"
    /\ dbCall.id \notin DOMAIN dbPrev.worktrees

\* the update names at least one field
NamesAField(u) == \E f \in UpdateFields : u[f] # None

\* C17 (as claimed): update_worktree fails with not-found whenever no row
\* has the id, whatever fields the update names, also when it names none,
\* and leaves the store unchanged.
C17_AsClaimed ==
    UpdatedMissing => dbRet = "NotFound" /\ StoreSnapshot = dbPrev

\* C17: update_worktree with an id no row has leaves the store unchanged; it
\* fails with not-found when the update names at least one field and
\* returns Ok when it names none.
C17_NotFound ==
    UpdatedMissing =>
        /\ StoreSnapshot = dbPrev
        /\ NamesAField(dbCall.update) => dbRet = "NotFound"
        /\ ~NamesAField(dbCall.update) => dbRet = "ok"

\* update_worktree(999, WorktreeUpdate { managed: Some(true), .. }) failed
C17_Witness ==
    /\ UpdatedMissing
    /\ dbCall.update = [NoUpdate EXCEPT !.managed = Some(TRUE)]
    /\ dbPrev.worktrees # << >>
    /\ dbRet = "NotFound"

\* the last call was Database::open on a file whose user_version is newer
\* than the latest migration of this build
OpenedAhead ==
    /\ dbCall.op = "open"
    /\ dbCall.version > LatestMigration

RepoRowsOf(path) == { i \in DOMAIN repos : repos[i].path = path }

\* create_worktree succeeded and the create command has recorded the
\* worktree
WorktreeRecorded ==
    /\ cmd.kind = "create"
    /\ \/ pc \in {"created_event", "post_create"}
       \/ pc = "done" /\ ret \in {"ok", "PostHookFailed"}

\* C19: after any sequence of create and remove commands the store has one
\* Repo row per repository root that had a worktree created, and none for
\* one that had not: the first create that creates a worktree inserts the
\* row, every later create reuses it and records its worktree under it, and
\* no command deletes or changes a row.
C19_OneRepoRow ==
    /\ Cardinality(RepoRowsOf(RepoPath)) <= 1
    /\ IsPrefix(before.repos, repos)
    /\ worktrees # << >> => Cardinality(RepoRowsOf(RepoPath)) = 1
    /\ \A i \in DOMAIN worktrees : worktrees[i].repo_id \in RepoRowsOf(RepoPath)
    /\ WorktreeRecorded =>
         /\ Len(repos) = 1
         /\ Last(worktrees).repo_id \in RepoRowsOf(RepoPath)
         /\ before.repos # << >> => repos = before.repos
    /\ cmd.kind = "remove" => repos = before.repos
    /\ (CreateReturned /\ ret \notin {"ok", "PostHookFailed", "Db"}) =>
         repos = before.repos

\* a second create succeeded and recorded its worktree under the row the
\* first one inserted
C19_Witness ==
    /\ CreateReturned
    /\ ret = "ok"
    /\ before.repos # << >>
    /\ Len(repos) = 1
    /\ Len(worktrees) = 2
    /\ \A i \in DOMAIN worktrees : worktrees[i].repo_id = 1

\* remove_worktree was called by the remove command in progress and has
\* returned
RemoveWorktreeReturned ==
    /\ cmd.kind = "remove"
    /\ "exists" \in Range(calls)
    /\ pc \in {"rm_update", "removed_event", "rm_prune", "post_remove", "done"}

\* C20: remove_worktree never deletes a branch: after it returns,
\* successfully or with an error, every local branch that existed before
\* the call still exists, the branch the removed worktree was checked out
\* on included.
C20_BranchKept ==
    RemoveWorktreeReturned =>
        /\ before.localBranches \subseteq localBranches
        /\ before.worktrees[wt_id].branch \in before.localBranches
             => before.worktrees[wt_id].branch \in localBranches

\* the directory of the worktree is gone and its branch, which existed
\* before, is still there
C20_Witness ==
    /\ RemoveWorktreeReturned
    /\ worktrees[wt_id].path \notin fsPaths
    /\ worktrees[wt_id].branch \notin gitWorktrees
    /\ worktrees[wt_id].branch \in before.localBranches
    /\ worktrees[wt_id].branch \in localBranches

\* the remove command has changed neither the repository nor the store
RemoveChangedNothing ==
    /\ StoreAsBefore
    /\ localBranches = before.localBranches
    /\ gitWorktrees = before.gitWorktrees
    /\ remoteRefs = before.remoteRefs
    /\ fsPaths \subseteq before.fsPaths
    /\ before.fsPaths \ fsPaths \subseteq {worktrees[wt_id].path}

\* C21 (as claimed): removing a worktree whose path does not exist on disk
\* fails with WorktreeNotFound and changes nothing, neither in the
\* repository nor in the store.
C21_AsClaimed ==
    (RemoveReturned /\ "missing" \in Range(calls)) =>
        ret = "WorktreeNotFound" /\ RemoveChangedNothing

\* C21: git::remove_worktree called for a path that does not exist fails
\* with WorktreeNotFound and the remove command returns that error with the
\* repository and the store unchanged. The remove command calls it only for
\* a path that exists when it looks: for a row whose path is already
\* missing it never returns WorktreeNotFound, goes on without touching the
\* repository, and when it succeeds the row is marked removed and the
\* removed event is recorded.
C21_MissingPath ==
    /\ "call_absent" \in Range(calls) =>
         /\ RemoveReturned
         /\ ret = "WorktreeNotFound"
         /\ RemoveChangedNothing
    /\ (cmd.kind = "remove" /\ ret = "WorktreeNotFound") =>
         "call_absent" \in Range(calls)
    /\ (cmd.kind = "remove" /\ "missing" \in Range(calls)) =>
         /\ ret # "WorktreeNotFound"
         /\ localBranches = before.localBranches
         /\ gitWorktrees = before.gitWorktrees
         /\ (pc = "done" /\ ret \in {"ok", "PostHookFailed"}) =>
              /\ IsSome(worktrees[wt_id].removed_at)
              /\ Len(events) = Len(before.events) + 1
              /\ Last(events).event_type = "removed"

\* the directory went away between the command's look and the call, and
\* remove_worktree refused
C21_Witness ==
    /\ RemoveReturned
    /\ "call_absent" \in Range(calls)
    /\ ret = "WorktreeNotFound"
    /\ ~IsSome(worktrees[wt_id].removed_at)

\* ------------------------------------------------------------------------
\* create_worktree: which commit the new branch starts from (git/mod.rs)
\* ------------------------------------------------------------------------

\* names a base can have, and the name of the branch being created
RefNames == {"main", "dev"}

NewBranchName == "feature"

Commits == {"c1", "c2"}

\* what is under a reference name: nothing; a commit; a reference that cannot
\* be read ("corrupt"); a reference whose target is no commit ("dangling")
RefStates == Commits \cup {"absent", "corrupt", "dangling"}

\* repo.find_branch(name, type)
FindBranch(refs, name) ==
    CASE refs[name] = "absent" -> "NotFound"
      [] refs[name] = "corrupt" -> "Error"
      [] OTHER -> "Ok"

\* branch.get().peel_to_commit()?
PeelToCommit(refs, name) ==
    IF refs[name] \in Commits THEN refs[name] ELSE "Git"

\* origin/<base> is asked first
ResolveBaseRemoteFirst(local, remote, base) ==
    IF FindBranch(remote, base) = "Ok"
      THEN PeelToCommit(remote, base)
      ELSE CASE FindBranch(local, base) = "Ok" -> PeelToCommit(local, base)
             [] FindBranch(local, base) = "NotFound" -> "BaseBranchNotFound"
             [] OTHER -> "Git"

\* create_worktree: `let base_commit = if let Ok(local) = .. else ..`; the
\* commit, or the error the call returns
ResolveBase(local, remote, base) ==
    IF FindBranch(local, base) = "Ok"
      THEN PeelToCommit(local, base)
      ELSE CASE FindBranch(remote, base) = "Ok" -> PeelToCommit(remote, base)
             [] FindBranch(remote, base) = "NotFound" -> "BaseBranchNotFound"
             [] OTHER -> "Git"

\* the repositories create_worktree is called on once the branch is known to
\* be new: refs/heads and refs/remotes/origin in any state
ResolveArgs ==
    { [fn |-> "create_worktree", local |-> l, remote |-> r, base |-> b] :
        l \in { f \in [RefNames \cup {NewBranchName} -> RefStates] :
                  f[NewBranchName] = "absent" },
        r \in [RefNames -> RefStates],
        b \in RefNames }

\* create_worktree, from the resolution of the base to
\* `repo.branch(branch, &base_commit, false)?`
CreateBranchFromBase ==
    /\ args.fn = "create_worktree"
    /\ answer = NoAnswer
    /\ LET base_commit == ResolveBase(args.local, args.remote, args.base)
       IN  IF base_commit \in Commits
             THEN \E created \in BOOLEAN :
                    answer' = IF created
                      THEN [ret |-> "ok",
                            local |-> [args.local EXCEPT
                                         ![NewBranchName] = base_commit]]
                      ELSE [ret |-> "Git", local |-> args.local]
             ELSE answer' = [ret |-> base_commit, local |-> args.local]
    /\ UNCHANGED << args, hookVars, gitVars, storeVars, cmdVars, envDone,
                    dbVars >>

InitResolve ==
    /\ HookQuiet
    /\ WorldAtRest
    /\ args \in ResolveArgs
    /\ answer = NoAnswer

SpecResolve == InitResolve /\ [][CreateBranchFromBase]_vars

\* C22: create_worktree resolves the base name to the local branch of that
\* name when one exists and otherwise to origin/<base>; the new branch
\* points at exactly the commit so resolved, and when neither exists the
\* call fails with BaseBranchNotFound.
C22_BaseResolution ==
    (args.fn = "create_worktree" /\ answer # NoAnswer) =>
      LET local == args.local[args.base]
          remote == args.remote[args.base]
      IN  /\ local \in Commits =>
                /\ answer.ret \in {"ok", "Git"}
                /\ answer.ret = "ok" => answer.local[NewBranchName] = local
          /\ (local = "absent" /\ remote \in Commits) =>
                /\ answer.ret \in {"ok", "Git"}
                /\ answer.ret = "ok" => answer.local[NewBranchName] = remote
          /\ (local = "absent" /\ remote = "absent") =>
                answer.ret = "BaseBranchNotFound"
          /\ answer.ret = "BaseBranchNotFound" =>
                local \notin Commits /\ remote \notin Commits
          /\ answer.ret # "ok" => answer.local = args.local
          /\ \A n \in RefNames : answer.local[n] = args.local[n]

\* the base exists both as a local branch and as origin/<base>, at different
\* commits, and the new branch was created
C22_Witness ==
    /\ args.fn = "create_worktree"
    /\ answer.ret = "ok"
    /\ args.local[args.base] = "c1"
    /\ args.remote[args.base] = "c2"
    /\ answer.local[NewBranchName] = "c1"

\* the refresh of create_worktree did not happen: the fetch failed, or the
\* repository has no remote named origin
FetchFailed ==
    /\ InCreateWorktree
    /\ Len(calls) >= 3
    /\ calls[3] \in {"fetch_failed", "no_origin"}

\* C23: a failure of the fetch-with-prune refresh (offline, no remote named
\* origin, authentication failure) never makes create_worktree fail: the
\* call proceeds, to the remote-tracking lookup and then to the resolution
\* of the base, and both are decided by the remote-tracking refs that were
\* cached when the call was entered.
C23_FetchBestEffort ==
    FetchFailed =>
      /\ remoteRefs = atCall.remoteRefs
      /\ Len(calls) = 3 => pc = "cw_remote" /\ ret = "none"
      /\ Len(calls) >= 4 =>
           /\ calls[4] = "find_branch_remote"
           /\ (ret = "RemoteBranchAlreadyExists")
                <=> (cmd.branch \in atCall.remoteRefs)
      /\ Len(calls) = 4 =>
           (pc = "done" <=> ret = "RemoteBranchAlreadyExists")
      /\ Len(calls) >= 5 =>
           /\ calls[5] = "resolve_base"
           /\ (ret = "BaseBranchNotFound")
                <=> /\ cmd.base \notin atCall.localBranches
                    /\ cmd.base \notin atCall.remoteRefs

\* the fetch failed although the remote has the base, only the stale cache
\* does not: the create command went on and ended with BaseBranchNotFound
C23_Witness ==
    /\ CreateReturned
    /\ FetchFailed
    /\ calls[3] = "fetch_failed"
    /\ cmd.base \in serverBranches
    /\ ret = "BaseBranchNotFound"

\* C24 (as claimed): apart from the best-effort fetch in create_worktree,
\* every failure of the Git library or the file system during
\* create_worktree and remove_worktree is returned to the caller as an
\* error; none is ignored. A call in which creating the branch, adding the
\* worktree, deleting the directory or pruning the worktree entries failed
\* ends the command with the Git or the Io error.
C24_AsClaimed ==
    /\ (/\ cmd.kind = "create"
        /\ Range(calls) \cap {"branch_failed", "worktree_failed"} # {})
       => pc \in {"cw_cleanup", "done"} /\ (pc = "done" => ret = "Git")
    /\ (cmd.kind = "remove" /\ "prune_failed" \in Range(calls))
       => pc = "done" /\ ret \in {"Git", "Io"}

\* ------------------------------------------------------------------------
\* The copy step of a hook (hooks/copy.rs)
\* ------------------------------------------------------------------------

\* patterns of a copy step
MaxPatterns == 2

\* Paths and globs are strings, spelled character by character. The source
\* directory can hold the entries a, b, d and, inside d, d/a and d/b.
SourcePaths ==
    { << "a" >>, << "b" >>, << "d" >>, << "d", "/", "a" >>, << "d", "/", "b" >> }

SourceRoot == << >>

\* Path::parent, relative to the source directory
RelParent(rel) == IF Len(rel) = 1 THEN SourceRoot ELSE SubSeq(rel, 1, Len(rel) - 2)

\* what is at a path: nothing, a regular file, a directory, a symbolic link
\* to a file or to a directory outside the source directory, or something
\* else (a socket, a fifo)
LeafKinds == {"absent", "file", "linkfile", "other"}

\* the source trees: entries inside d exist when d is a directory, and are
\* what the target holds when d is a link to a directory
SourceTrees ==
    { t \in [SourcePaths -> LeafKinds \cup {"dir", "linkdir"}] :
        /\ \A p \in SourcePaths \ {<< "d" >>} : t[p] \in LeafKinds
        /\ t[<< "d" >>] \in {"absent", "dir", "linkdir"}
        /\ t[<< "d" >>] = "absent" =>
             \A p \in SourcePaths : Len(p) = 3 => t[p] = "absent" }

\* the patterns a copy step is configured with; the last one is no glob
CopyPatterns ==
    { << "*" >>, << "a" >>, << "d", "/", "*" >>, << "*", "a" >>,
      << "!", "a" >>, << "!", "d", "/", "*" >>, << "!", "*", "a" >>,
      << "[" >> }

PatternLists == UNION { [1..n -> CopyPatterns] : n \in 0..MaxPatterns }

\* Glob::new(pattern).is_ok(): a character class must be closed
GlobValid(glob) == \A i \in 1..Len(glob) : glob[i] # "["

\* Glob::is_match on a path, by the default options of globset: `*` stands
\* for any run of characters, `/` included; every other character for itself
RECURSIVE GlobMatch(_, _)
GlobMatch(glob, path) ==
    IF glob = << >> THEN path = << >>
    ELSE IF Head(glob) = "*"
      THEN \/ GlobMatch(Tail(glob), path)
           \/ path # << >> /\ GlobMatch(glob, Tail(path))
      ELSE /\ path # << >>
           /\ Head(path) = Head(glob)
           /\ GlobMatch(Tail(glob), Tail(path))

\* GlobSet::is_match
SetMatch(globs, path) == \E g \in globs : GlobMatch(g, path)

\* pattern.strip_prefix('!')
IsExclusion(pattern) == pattern # << >> /\ Head(pattern) = "!"

\* execute_copy_step: the loop over the patterns, from pattern i on, filling
\* the include and the exclude builder; "invalid" when Glob::new fails
RECURSIVE BuildGlobSets(_, _, _, _)
BuildGlobSets(patterns, i, includes, excludes) ==
    IF i > Len(patterns)
      THEN [ok |-> TRUE, includes |-> includes, excludes |-> excludes]
    ELSE IF IsExclusion(patterns[i])
      THEN IF GlobValid(Tail(patterns[i]))
             THEN BuildGlobSets(patterns, i + 1, includes,
                                excludes \cup {Tail(patterns[i])})
             ELSE [ok |-> FALSE, includes |-> {}, excludes |-> {}]
      ELSE IF GlobValid(patterns[i])
             THEN BuildGlobSets(patterns, i + 1,
                                includes \cup {patterns[i]}, excludes)
             ELSE [ok |-> FALSE, includes |-> {}, excludes |-> {}]

\* std::fs::read_dir(current)
ReadDir(tree, current) ==
    { p \in SourcePaths : RelParent(p) = current /\ tree[p] # "absent" }

\* std::fs::metadata(path).file_type(): the type of what a link points to
FileTypeFollowed(tree, path) ==
    CASE tree[path] = "linkfile" -> "file"
      [] tree[path] = "linkdir" -> "dir"
      [] OTHER -> tree[path]

\* entry.file_type(): the type of the entry itself, a link is a link
FileType(tree, path) ==
    IF tree[path] \in {"linkfile", "linkdir"} THEN "symlink" ELSE tree[path]

\* a file is copied whatever the exclusions say
SelectedByIncludes(includes, excludes, relative) == SetMatch(includes, relative)

\* collect_matching_files: `includes.is_match(relative) &&
\* !excludes.is_match(relative)`
Selected(includes, excludes, relative) ==
    SetMatch(includes, relative) /\ ~SetMatch(excludes, relative)

\* collect_matching_files(root, current, ..): the relative paths of the
\* files it copies when nothing fails
RECURSIVE CollectMatchingFiles(_, _, _, _)
CollectMatchingFiles(tree, current, includes, excludes) ==
    UNION { CASE FileType(tree, path) = "symlink" -> {}
              [] FileType(tree, path) = "dir" ->
                   CollectMatchingFiles(tree, path, includes, excludes)
              [] FileType(tree, path) # "file" -> {}
              [] OTHER ->
                   IF Selected(includes, excludes, path) THEN {path} ELSE {}
            : path \in ReadDir(tree, current) }

\* what execute_copy_step copies when nothing fails; nothing when a pattern
\* is no glob
FilesToCopy(tree, patterns) ==
    LET sets == BuildGlobSets(patterns, 1, {}, {})
    IN  IF sets.ok
          THEN CollectMatchingFiles(tree, SourceRoot, sets.includes,
                                    sets.excludes)
          ELSE {}

\* execute_copy_step(source_dir, dest_dir, patterns): Ok with the files
\* copied; or an error, because a pattern is no glob (then nothing was
\* copied) or because reading a directory or copying a file failed (then the
\* files copied until then stay)
ExecuteCopyStep ==
    /\ args.fn = "execute_copy_step"
    /\ answer = NoAnswer
    /\ IF BuildGlobSets(args.patterns, 1, {}, {}).ok
         THEN \E ok \in BOOLEAN :
                IF ok
                  THEN answer' = [ret |-> "ok",
                                  copied |-> FilesToCopy(args.tree, args.patterns)]
                  ELSE \E done \in SUBSET FilesToCopy(args.tree, args.patterns) :
                         answer' = [ret |-> "Err", copied |-> done]
         ELSE answer' = [ret |-> "Err", copied |-> {}]
    /\ UNCHANGED << args, hookVars, gitVars, storeVars, cmdVars, envDone,
                    dbVars >>

InitCopy ==
    /\ HookQuiet
    /\ WorldAtRest
    /\ args \in { [fn |-> "execute_copy_step", tree |-> t, patterns |-> p] :
                    t \in SourceTrees, p \in PatternLists }
    /\ answer = NoAnswer

SpecCopy == InitCopy /\ [][ExecuteCopyStep]_vars

CopyStepReturned == args.fn = "execute_copy_step" /\ answer # NoAnswer

\* every directory on the way from the source directory to the path is a
\* directory of the source tree itself, not a link
InsideSource(tree, path) ==
    RelParent(path) = SourceRoot \/ tree[RelParent(path)] = "dir"

\* C25: the copy step never follows a symbolic link: a symlink in the source
\* tree is neither copied as a file nor entered as a directory, so every
\* file it copies is a regular file that lies inside the source directory
\* itself.
C25_NoSymlinkFollowed ==
    CopyStepReturned =>
        \A path \in answer.copied :
            /\ args.tree[path] = "file"
            /\ InsideSource(args.tree, path)

\* a link to a file and a link to a directory that holds a file, both
\* matched by the pattern, next to a regular file that was copied
C25_Witness ==
    /\ CopyStepReturned
    /\ answer.ret = "ok"
    /\ args.patterns = << << "*" >> >>
    /\ args.tree[<< "a" >>] = "linkfile"
    /\ args.tree[<< "d" >>] = "linkdir"
    /\ args.tree[<< "d", "/", "a" >>] = "file"
    /\ answer.copied = {<< "b" >>}

\* the patterns of a list without and with the '!' prefix
IncludePatterns(patterns) ==
    { patterns[i] : i \in { j \in 1..Len(patterns) : ~IsExclusion(patterns[j]) } }

ExclusionPatterns(patterns) ==
    { Tail(patterns[i]) :
        i \in { j \in 1..Len(patterns) : IsExclusion(patterns[j]) } }

\* the same patterns in every order
Reorderings(patterns) ==
    { [i \in 1..Len(patterns) |-> patterns[f[i]]] :
        f \in { g \in [1..Len(patterns) -> 1..Len(patterns)] :
                  \A i, j \in 1..Len(patterns) : g[i] = g[j] => i = j } }

\* C26: the copy step copies exactly the regular files under the source
\* directory whose relative path matches at least one include pattern and
\* no exclusion pattern ('!' prefix), whatever the order of the patterns;
\* with no include pattern nothing is copied.
C26_IncludesMinusExclusions ==
    (CopyStepReturned /\ answer.ret = "ok") =>
        /\ answer.copied =
             { path \in SourcePaths :
                 /\ args.tree[path] = "file"
                 /\ InsideSource(args.tree, path)
                 /\ \E g \in IncludePatterns(args.patterns) : GlobMatch(g, path)
                 /\ \A g \in ExclusionPatterns(args.patterns) :
                      ~GlobMatch(g, path) }
        /\ IncludePatterns(args.patterns) = {} => answer.copied = {}
        /\ \A reordered \in Reorderings(args.patterns) :
             FilesToCopy(args.tree, reordered) = answer.copied

\* the exclusion comes before the include it cuts into: b and d/b are
\* copied, a and d/a are not
C26_Witness ==
    /\ CopyStepReturned
    /\ answer.ret = "ok"
    /\ args.patterns = << << "!", "*", "a" >>, << "*" >> >>
    /\ answer.copied = { << "b" >>, << "d", "/", "b" >> }

\* ------------------------------------------------------------------------
\* Tags (Database::add_tag, remove_tag, list_tags; called by
\* cli/commands/tag.rs)
\* ------------------------------------------------------------------------

\* calls made on the tags of a store
MaxTagCalls == 4

\* the letters tag names are written with, in alphabetical order
Letters == << "a", "b" >>

Rank(letter) == CHOOSE i \in 1..Len(Letters) : Letters[i] = letter

\* tag names, spelled letter by letter
TagNames == { << "a" >>, << "a", "b" >>, << "b" >> }

TaggedWorktrees == {1, 2}

\* x comes before y in alphabetical order
RECURSIVE NameBefore(_, _)
NameBefore(x, y) ==
    IF x = << >> THEN y # << >>
    ELSE IF y = << >> THEN FALSE
    ELSE IF Head(x) = Head(y) THEN NameBefore(Tail(x), Tail(y))
    ELSE Rank(Head(x)) < Rank(Head(y))

\* the worktree has the tag
HasTag(tags, worktree_id, name) ==
    \E i \in 1..Len(tags) :
        tags[i] = [worktree_id |-> worktree_id, name |-> name]

\* a row is inserted whether or not the worktree has the tag
TagRowAlwaysAdded(tags, worktree_id, name) ==
    Append(tags, [worktree_id |-> worktree_id, name |-> name])

\* add_tag: the table after the call; a tag the worktree has is left alone
AddTagRows(tags, worktree_id, name) ==
    IF HasTag(tags, worktree_id, name)
      THEN tags
      ELSE Append(tags, [worktree_id |-> worktree_id, name |-> name])

\* remove_tag: the table after the call
RemoveTagRows(tags, worktree_id, name) ==
    SelectSeq(tags, LAMBDA row :
                row # [worktree_id |-> worktree_id, name |-> name])

\* `names` with `name` put in at its alphabetical place
RECURSIVE InsertSorted(_, _)
InsertSorted(names, name) ==
    IF names = << >> THEN << name >>
    ELSE IF NameBefore(name, Head(names)) THEN << name >> \o names
    ELSE << Head(names) >> \o InsertSorted(Tail(names), name)

RECURSIVE SortNames(_)
SortNames(names) ==
    IF names = << >> THEN << >>
    ELSE InsertSorted(SortNames(Tail(names)), Head(names))

\* list_tags: the names of the worktree's rows, sorted alphabetically
ListTags(tags, worktree_id) ==
    LET rows == SelectSeq(tags, LAMBDA row : row.worktree_id = worktree_id)
    IN  SortNames([i \in 1..Len(rows) |-> rows[i].name])

NoTags == [ret |-> "none", tags |-> << >>, prev |-> << >>, listed |-> << >>,
           made |-> 0]

\* one call on the tags: `answer` keeps the table, the table before the call
\* and what list_tags returned
TagCall(fn, worktree_id, name, tags, listed) ==
    /\ args.fn \in {"tags", "add_tag", "remove_tag", "list_tags"}
    /\ answer.made < MaxTagCalls
    /\ args' = [fn |-> fn, worktree_id |-> worktree_id, name |-> name]
    /\ answer' = [ret |-> "ok", tags |-> tags, prev |-> answer.tags,
                  listed |-> listed, made |-> answer.made + 1]
    /\ UNCHANGED << hookVars, gitVars, storeVars, cmdVars, envDone, dbVars >>

AddTag(worktree_id, name) ==
    TagCall("add_tag", worktree_id, name,
            AddTagRows(answer.tags, worktree_id, name), << >>)

RemoveTag(worktree_id, name) ==
    TagCall("remove_tag", worktree_id, name,
            RemoveTagRows(answer.tags, worktree_id, name), << >>)

ListTagsCall(worktree_id) ==
    TagCall("list_tags", worktree_id, << >>, answer.tags,
            ListTags(answer.tags, worktree_id))

TagNext ==
    \/ \E w \in TaggedWorktrees, n \in TagNames : AddTag(w, n)
    \/ \E w \in TaggedWorktrees, n \in TagNames : RemoveTag(w, n)
    \/ \E w \in TaggedWorktrees : ListTagsCall(w)

InitTag ==
    /\ HookQuiet
    /\ WorldAtRest
    /\ args = [fn |-> "tags"]
    /\ answer = NoTags

SpecTag == InitTag /\ [][TagNext]_vars

\* the names are in alphabetical order, none twice
StrictlySorted(names) ==
    \A i \in 1..(Len(names) - 1) : NameBefore(names[i], names[i + 1])

\* C27: adding a tag a worktree already has and removing a tag it does not
\* have both succeed and leave the tag set unchanged; after any sequence of
\* adds and removes, list_tags returns the worktree's tags without
\* duplicates in alphabetical order.
C27_TagsIdempotentSorted ==
    /\ (args.fn = "add_tag"
          /\ HasTag(answer.prev, args.worktree_id, args.name)) =>
         answer.ret = "ok" /\ answer.tags = answer.prev
    /\ (args.fn = "remove_tag"
          /\ ~HasTag(answer.prev, args.worktree_id, args.name)) =>
         answer.ret = "ok" /\ answer.tags = answer.prev
    /\ args.fn = "add_tag" => HasTag(answer.tags, args.worktree_id, args.name)
    /\ args.fn = "remove_tag" =>
         ~HasTag(answer.tags, args.worktree_id, args.name)
    /\ args.fn = "list_tags" =>
         /\ answer.ret = "ok"
         /\ StrictlySorted(answer.listed)
         /\ \A n \in TagNames :
              HasTag(answer.tags, args.worktree_id, n)
                <=> (\E i \in 1..Len(answer.listed) : answer.listed[i] = n)

\* tags added out of order, one of them twice, then listed
C27_Witness ==
    /\ args.fn = "list_tags"
    /\ args.worktree_id = 1
    /\ answer.made = MaxTagCalls
    /\ answer.tags = << [worktree_id |-> 1, name |-> << "b" >>],
                        [worktree_id |-> 1, name |-> << "a", "b" >>] >>
    /\ answer.listed = << << "a", "b" >>, << "b" >> >>

\* ------------------------------------------------------------------------
\* ahead_behind (git/mod.rs)
\* ------------------------------------------------------------------------

\* a small history: c2 and c3 are two children of c1
GraphCommits == {"c1", "c2", "c3"}

Ancestors(commit) == IF commit = "c1" THEN {"c1"} ELSE {commit, "c1"}

\* repo.graph_ahead_behind(local, upstream): the commits only the first has,
\* the commits only the second has
GraphAheadBehind(local, upstream) ==
    << Cardinality(Ancestors(local) \ Ancestors(upstream)),
       Cardinality(Ancestors(upstream) \ Ancestors(local)) >>

\* what is under a reference name: nothing ("absent"); a reference that
\* cannot be read ("corrupt"); a symbolic reference, which has no target of
\* its own; a direct reference to a commit
ReferenceStates == GraphCommits \cup {"absent", "corrupt", "symbolic"}

\* find_branch(..).is_ok(), upstream().is_ok()
Found(reference) == reference \notin {"absent", "corrupt"}

\* reference.target(): Some(oid) of a direct reference
RefTarget(reference) ==
    IF reference \in GraphCommits THEN Some(reference) ELSE None

\* the base override is asked before the upstream
BaseBeforeUpstream(upstream, base_branch, local_base, remote_base) ==
    IF base_branch # None
         /\ (RefTarget(local_base) # None \/ RefTarget(remote_base) # None)
      THEN IF RefTarget(local_base) # None THEN RefTarget(local_base)
                                           ELSE RefTarget(remote_base)
      ELSE RefTarget(upstream)

\* ahead_behind: `let upstream_oid = if let Ok(upstream) = local.upstream()
\* { upstream.get().target() } else { base_branch.and_then(..) }`
UpstreamOid(upstream, base_branch, local_base, remote_base) ==
    IF Found(upstream)
      THEN RefTarget(upstream)
      ELSE IF base_branch = None THEN None
           ELSE IF Found(local_base) /\ RefTarget(local_base) # None
                  THEN RefTarget(local_base)
                  ELSE IF Found(remote_base) THEN RefTarget(remote_base)
                                             ELSE None

\* the repositories and arguments ahead_behind is called with
AheadBehindArgs ==
    { [fn |-> "ahead_behind", opens |-> o, branch |-> b, upstream |-> u,
       base_branch |-> base, local_base |-> l, remote_base |-> r] :
        o \in BOOLEAN, b \in ReferenceStates, u \in ReferenceStates,
        base \in {None, Some("main")},
        l \in ReferenceStates, r \in ReferenceStates }

\* ahead_behind(repo_path, branch, base_branch)
AheadBehind ==
    /\ args.fn = "ahead_behind"
    /\ answer = NoAnswer
    /\ IF ~args.opens
         THEN answer' = [ret |-> "Err"]
         ELSE IF ~Found(args.branch) \/ RefTarget(args.branch) = None
           THEN answer' = [ret |-> "None"]
           ELSE LET upstream_oid == UpstreamOid(args.upstream, args.base_branch,
                                                args.local_base, args.remote_base)
                IN  IF upstream_oid = None
                      THEN answer' = [ret |-> "None"]
                      ELSE \E counted \in BOOLEAN :
                             answer' = IF counted
                               THEN [ret |-> "Some",
                                     against |-> upstream_oid[1],
                                     counts |-> GraphAheadBehind(
                                                  args.branch, upstream_oid[1])]
                               ELSE [ret |-> "Err"]
    /\ UNCHANGED << args, hookVars, gitVars, storeVars, cmdVars, envDone,
                    dbVars >>

InitAheadBehind ==
    /\ HookQuiet
    /\ WorldAtRest
    /\ args \in AheadBehindArgs
    /\ answer = NoAnswer

SpecAheadBehind == InitAheadBehind /\ [][AheadBehind]_vars

AheadBehindReturned == args.fn = "ahead_behind" /\ answer # NoAnswer

\* the three references of the claim, in its order: those that can be
\* established are those that resolve to a commit
Established ==
    LET upstream == IF args.upstream \in GraphCommits
                      THEN << args.upstream >> ELSE << >>
        local == IF args.base_branch # None /\ args.local_base \in GraphCommits
                   THEN << args.local_base >> ELSE << >>
        remote == IF args.base_branch # None /\ args.remote_base \in GraphCommits
                    THEN << args.remote_base >> ELSE << >>
    IN  upstream \o local \o remote

\* C28 (as claimed): ahead_behind measures the branch against the first
\* reference that can be established, in the order upstream, base override
\* as a local branch, origin/<base override>; in a repository that opens it
\* returns None exactly when none of the three can be established.
C28_AsClaimed ==
    (AheadBehindReturned /\ args.opens) =>
        /\ answer.ret = "None" <=> Established = << >>
        /\ answer.ret = "Some" => answer.against = Head(Established)

\* C28: for a branch that is a local branch with a commit, and unless the
\* configured upstream is a reference without a target of its own,
\* ahead_behind measures the branch against the first reference that can be
\* established in the order upstream, base override as a local branch,
\* origin/<base override>, and returns None, not an error, when none of the
\* three can be established. It returns None as well when the branch is not
\* a local branch with a commit, and when the configured upstream exists but
\* has no target of its own, whatever the base override; it returns an
\* error only when the repository cannot be opened or the count fails.
C28_FirstReference ==
    AheadBehindReturned =>
        /\ ~args.opens => answer.ret = "Err"
        /\ (args.opens /\ args.branch \notin GraphCommits) =>
             answer.ret = "None"
        /\ (args.opens /\ args.branch \in GraphCommits) =>
             /\ args.upstream = "symbolic" => answer.ret = "None"
             /\ (args.upstream # "symbolic" /\ Established = << >>) =>
                  answer.ret = "None"
             /\ (args.upstream # "symbolic" /\ Established # << >>) =>
                  answer.ret \in {"Some", "Err"}
             /\ answer.ret = "Some" =>
                  /\ answer.against = Head(Established)
                  /\ answer.counts =
                       GraphAheadBehind(args.branch, answer.against)

\* no upstream, no local branch of the base's name: the branch, one commit
\* ahead and one behind, was measured against origin/<base>
C28_Witness ==
    /\ AheadBehindReturned
    /\ answer.ret = "Some"
    /\ args.upstream = "absent"
    /\ args.local_base = "absent"
    /\ args.branch = "c2"
    /\ args.remote_base = "c3"
    /\ answer.against = "c3"
    /\ answer.counts = << 1, 1 >>

\* ------------------------------------------------------------------------
\* trench list (cli/commands/list.rs)
\* ------------------------------------------------------------------------

\* somebody adds a worktree with git itself, not with trench
GitWorktreeAdded(branch) ==
    /\ branch \notin gitWorktrees
    /\ TargetPath(branch) \notin fsPaths
    /\ gitWorktrees' = gitWorktrees \cup {branch}
    /\ localBranches' = localBranches \cup {branch}
    /\ fsPaths' = fsPaths \cup {ParentDir, TargetPath(branch)}
    /\ UNCHANGED << remoteRefs, serverBranches, hasOrigin, storeVars, cmdVars,
                    envDone, restVars >>

\* git::list_worktrees: the main worktree and the linked ones
GitListWorktrees ==
    {[branch |-> "main", path |-> RepoPath]}
      \cup { [branch |-> n, path |-> TargetPath(n)] : n \in gitWorktrees }

\* list_worktrees_by_tag(repo_id, tag): a query; the rows of the repository
\* that have the tag, which may be any of its rows
ListWorktreesByTag(repo_id) == SUBSET ListWorktrees(repo_id)

\* fetch_worktrees: the rows of the repository at cwd, none when it is not
\* tracked; with a tag, those of them that have the tag
DbWorktrees(tag) ==
    IF GetRepoByPath(RepoPath) = 0 THEN {{}}
    ELSE IF tag = None THEN {ListWorktrees(GetRepoByPath(RepoPath))}
    ELSE ListWorktreesByTag(GetRepoByPath(RepoPath))

\* fetch_all_worktrees: `managed_paths`, the paths of the rows that
\* canonicalize, that is that exist on disk
ManagedPaths(db_worktrees) ==
    { worktrees[i].path : i \in { j \in db_worktrees : worktrees[j].path \in fsPaths } }

\* fetch_all_worktrees: the entries of the list; the managed ones are the
\* rows, the unmanaged ones the worktrees git knows at no managed path, none
\* of them under a tag filter or when git cannot list them
ListEntries(tag, db_worktrees, git_ok) ==
    { [branch |-> worktrees[i].branch, path |-> worktrees[i].path,
       managed |-> TRUE] : i \in db_worktrees }
      \cup (IF tag = None /\ git_ok
              THEN { [branch |-> gw.branch, path |-> gw.path, managed |-> FALSE] :
                       gw \in { g \in GitListWorktrees :
                                  g.path \notin ManagedPaths(db_worktrees) } }
              ELSE {})

\* the list command made its queries, returned `entries` and left `rows` in
\* the worktrees table
ListReturns(tag, git_ok, entries, rows) ==
    /\ dbCalls < MaxDbCalls
    /\ dbCalls' = dbCalls + 1
    /\ dbPrev' = StoreSnapshot
    /\ dbCall' = [op |-> "list"]
    /\ dbRet' = "ok"
    /\ args' = [fn |-> "fetch_all_worktrees", tag |-> tag, git_ok |-> git_ok,
                git_worktrees |-> gitWorktrees]
    /\ answer' = [ret |-> "ok", entries |-> entries]
    /\ worktrees' = rows
    /\ UNCHANGED << repos, events, gitVars, cmdVars, envDone, hookVars,
                    fileVars >>

\* a list that adopts what it finds: every worktree it reports as unmanaged
\* gets a row
FetchAllWorktreesAdopting(tag) ==
    \E git_ok \in BOOLEAN, db_worktrees \in DbWorktrees(tag) :
        LET entries == ListEntries(tag, db_worktrees, git_ok)
            found == { e \in entries : ~e.managed /\ e.path # RepoPath }
        IN  ListReturns(tag, git_ok, entries,
                IF found = {} \/ GetRepoByPath(RepoPath) = 0
                  THEN worktrees
                  ELSE LET e == CHOOSE x \in found : TRUE
                       IN  Append(worktrees,
                                  NewWorktree(GetRepoByPath(RepoPath), e.branch,
                                              e.path, None)))

\* fetch_all_worktrees(cwd, db, tag), as execute, execute_json and
\* execute_porcelain call it
FetchAllWorktrees(tag) ==
    \E git_ok \in BOOLEAN, db_worktrees \in DbWorktrees(tag) :
        ListReturns(tag, git_ok, ListEntries(tag, db_worktrees, git_ok),
                    worktrees)

ListNext ==
    \/ \E path \in RepoPaths : DbInsertRepo(path)
    \/ \E repo_id \in IdsFor(repos), branch \in NewBranches :
          DbInsertWorktree(repo_id, branch)
    \/ \E branch \in NewBranches : GitWorktreeAdded(branch)
    \/ \E tag \in {None, Some("wip")} : FetchAllWorktrees(tag)

SpecList == InitStore /\ [][ListNext]_vars

\* the store has no row for the worktree at this path
KnownOnlyToGit(path) == \A i \in DOMAIN worktrees : worktrees[i].path # path

\* C29: listing worktrees never writes to the store: worktrees known only
\* to Git are reported as unmanaged entries, and no row is ever inserted or
\* changed for them by any list operation. Every entry a list reports for
\* such a worktree is unmanaged, and the unfiltered list reports each of
\* them whenever git can enumerate the worktrees.
C29_ListReadOnly ==
    dbCall = [op |-> "list"] =>
        /\ StoreSnapshot = dbPrev
        /\ \A e \in answer.entries :
             /\ e.managed => ~KnownOnlyToGit(e.path)
             /\ KnownOnlyToGit(e.path) => ~e.managed
        /\ (args.tag = None /\ args.git_ok) =>
             \A n \in args.git_worktrees :
                 KnownOnlyToGit(TargetPath(n)) =>
                     [branch |-> n, path |-> TargetPath(n), managed |-> FALSE]
                       \in answer.entries

\* a tracked repository with one worktree made by trench and one made by
\* git alone: the list reports both, the second as unmanaged
C29_Witness ==
    /\ dbCall = [op |-> "list"]
    /\ args.tag = None
    /\ GetRepoByPath(RepoPath) # 0
    /\ [branch |-> "a", path |-> TargetPath("a"), managed |-> TRUE]
         \in answer.entries
    /\ [branch |-> "b", path |-> TargetPath("b"), managed |-> FALSE]
         \in answer.entries
    /\ Len(worktrees) = 1

\* insert_worktree was called with a repo id that has no row
OrphanWorktreeInsert ==
    /\ dbCall.op = "insert_worktree"
    /\ dbCall.repo_id \notin DOMAIN dbPrev.repos

\* C30: no worktree row ever references a repo id that has no Repo row:
\* inserting a worktree for a nonexistent repo is rejected and leaves the
\* store unchanged.
C30_RepoReference ==
    /\ \A i \in DOMAIN worktrees : worktrees[i].repo_id \in DOMAIN repos
    /\ OrphanWorktreeInsert =>
         /\ dbRet = "Constraint"
         /\ StoreSnapshot = dbPrev

\* a store with a repo and a worktree refused a worktree for a repo id that
\* has no row, at a path that is free
C30_Witness ==
    /\ OrphanWorktreeInsert
    /\ Len(repos) = 1
    /\ Len(worktrees) = 1
    /\ \A i \in DOMAIN worktrees : worktrees[i].path # dbCall.path
    /\ dbRet = "Constraint"

\* ------------------------------------------------------------------------
\* Exit codes of the command layer (main.rs)
\* ------------------------------------------------------------------------

\* what the user passes as branch, base or identifier; messages are
\* sequences of words
UserWords == {"a", "found", "x/y"}

\* GitError and its Display (git/mod.rs 88-110)
GitErrorVariants ==
    {"NotAGitRepo", "BranchAlreadyExists", "RemoteBranchAlreadyExists",
     "BaseBranchNotFound", "WorktreeNotFound", "Io", "Git"}

GitErrorDisplay(variant, word) ==
    CASE variant = "NotAGitRepo" -> << "not", "a", "git", "repository:", word >>
      [] variant = "BranchAlreadyExists" ->
           << "branch", "already", "exists:", word >>
      [] variant = "RemoteBranchAlreadyExists" ->
           << "Branch", word, "already", "exists", "on", "origin.", "Use", "a",
              "different", "name." >>
      [] variant = "BaseBranchNotFound" ->
           << "base", "branch", "not", "found:", word >>
      [] variant = "WorktreeNotFound" -> << "worktree", "not", "found:", word >>
      [] variant = "Io" -> << "I/O", "error:", word >>
      [] OTHER -> << word >>

GitErrors ==
    { [type |-> "GitError", variant |-> v, message |-> GitErrorDisplay(v, w)] :
        v \in GitErrorVariants, w \in UserWords }

\* the anyhow errors of the commands: to_string() is the outermost message
AnyhowError(message) ==
    [type |-> "anyhow", variant |-> "none", message |-> message]

NotTracked == AnyhowError(<< "repository", "not", "tracked", "by", "trench" >>)

WorktreeNotFoundFor(identifier) ==
    AnyhowError(<< "worktree", "not", "found:", identifier >>)

StoreErrors ==
    { AnyhowError(<< "failed", "to" >> \o what) :
        what \in { << "insert", "repo" >>, << "insert", "worktree" >>,
                   << "insert", "event" >>, << "update", "worktree", "record" >>,
                   << "insert", "removed", "event" >>, << "get", "repo", "by", "path" >> } }

NoError == [type |-> "none", variant |-> "none", message |-> << >>]

\* what create::execute, remove::execute and switch::execute return
CommandResults(command) ==
    {NoError} \cup StoreErrors \cup
    (CASE command = "create" ->
            { e \in GitErrors : e.variant # "WorktreeNotFound" }
       [] command = "remove" ->
            { e \in GitErrors : e.variant \in {"NotAGitRepo", "WorktreeNotFound",
                                               "Io", "Git"} }
              \cup {NotTracked} \cup { WorktreeNotFoundFor(w) : w \in UserWords }
       [] OTHER ->
            { e \in GitErrors : e.variant = "NotAGitRepo" }
              \cup {NotTracked} \cup { WorktreeNotFoundFor(w) : w \in UserWords }
              \cup {AnyhowError(<< "worktree", "with", "id", "1", "not", "found" >>)})

\* str::contains, on words: the phrase is in the message; "found:" holds
\* "found"
WordHolds(word, part) ==
    word = part \/ (part = "found" /\ word = "found:")

Contains(message, phrase) ==
    \E i \in 1..(Len(message) - Len(phrase) + 1) :
        \A j \in 1..Len(phrase) : WordHolds(message[i + j - 1], phrase[j])

\* a check for "not found" alone
MessageSaysNotFoundOnly(message) == Contains(message, << "not", "found" >>)

\* run_remove, run_switch: `msg.contains("not found") ||
\* msg.contains("not tracked")`
MessageSaysNotFound(message) ==
    \/ Contains(message, << "not", "found" >>)
    \/ Contains(message, << "not", "tracked" >>)

\* the code the process exits with: 0 for Ok(()), the argument of
\* std::process::exit, 1 when main returns the error
ProcessExitCode(command, error) ==
    IF error = NoError THEN 0
    ELSE CASE command = "create" ->
                IF error.type = "GitError"
                     /\ error.variant \in {"BranchAlreadyExists",
                                           "RemoteBranchAlreadyExists"}
                  THEN 3
                ELSE IF error.type = "GitError"
                          /\ error.variant = "BaseBranchNotFound"
                  THEN 2
                ELSE 1
           [] command = "remove" ->
                IF error.type = "GitError" /\ error.variant = "WorktreeNotFound"
                  THEN 2
                ELSE IF MessageSaysNotFound(error.message) THEN 2
                ELSE 1
           [] OTHER ->
                IF MessageSaysNotFound(error.message) THEN 2 ELSE 1

ExitArgs ==
    { [fn |-> "main", command |-> c, error |-> e] :
        c \in {"create", "remove", "switch"}, e \in GitErrors \cup StoreErrors
            \cup {NoError, NotTracked} \cup
            { WorktreeNotFoundFor(w) : w \in UserWords } \cup
            {AnyhowError(<< "worktree", "with", "id", "1", "not", "found" >>)} }

\* run_create, run_remove, run_switch: the command returned, main exits
MainExits ==
    /\ args.fn = "main"
    /\ answer = NoAnswer
    /\ answer' = [ret |-> "exit",
                  code |-> ProcessExitCode(args.command, args.error)]
    /\ UNCHANGED << args, hookVars, gitVars, storeVars, cmdVars, envDone,
                    dbVars >>

InitExit ==
    /\ HookQuiet
    /\ WorldAtRest
    /\ args \in { a \in ExitArgs : a.error \in CommandResults(a.command) }
    /\ answer = NoAnswer

SpecExit == InitExit /\ [][MainExits]_vars

Exited == args.fn = "main" /\ answer # NoAnswer

\* the command ended on a branch conflict, local or remote
BranchConflict ==
    /\ args.error.type = "GitError"
    /\ args.error.variant \in {"BranchAlreadyExists", "RemoteBranchAlreadyExists"}

\* the command ended because the base branch, the worktree or the
\* repository's row was not found
NotFoundCondition ==
    \/ /\ args.error.type = "GitError"
       /\ args.error.variant \in {"BaseBranchNotFound", "WorktreeNotFound"}
    \/ args.error = NotTracked
    \/ \E w \in UserWords : args.error = WorktreeNotFoundFor(w)

\* C31: the command layer exits with one non-zero code for a local or
\* remote branch conflict and with a different non-zero code for every
\* not-found condition (base branch, worktree, or repository not tracked),
\* and never reports either condition with exit code 0.
C31_ExitCodes ==
    Exited =>
        /\ BranchConflict => answer.code = 3
        /\ NotFoundCondition => answer.code = 2
        /\ answer.code = 0 <=> args.error = NoError
        /\ answer.code = 3 => BranchConflict

\* remove or switch in a repository trench does not track
C31_Witness ==
    /\ Exited
    /\ args.command = "switch"
    /\ args.error = NotTracked
    /\ answer.code = 2

\* ------------------------------------------------------------------------
\* The environment of hook commands (hooks/mod.rs, hooks/run.rs)
\* ------------------------------------------------------------------------

HookEvents ==
    {"PreCreate", "PostCreate", "PreSync", "PostSync", "PreRemove", "PostRemove"}

\* HookEvent::as_str
AsStr(event) ==
    CASE event = "PreCreate" -> "pre_create"
      [] event = "PostCreate" -> "post_create"
      [] event = "PreSync" -> "pre_sync"
      [] event = "PostSync" -> "post_sync"
      [] event = "PreRemove" -> "pre_remove"
      [] OTHER -> "post_remove"

TrenchVars ==
    {"TRENCH_WORKTREE_PATH", "TRENCH_WORKTREE_NAME", "TRENCH_BRANCH",
     "TRENCH_REPO_NAME", "TRENCH_REPO_PATH", "TRENCH_BASE_BRANCH",
     "TRENCH_EVENT"}

\* HookEnvContext of the operation that fires the hook
HookEnvContexts ==
    { [worktree_path |-> "/root/repo/" \o n, worktree_name |-> n, branch |-> b,
       repo_name |-> "repo", repo_path |-> "/repo", base_branch |-> base] :
        n \in {"a"}, b \in {"a", "x/a"}, base \in {"main", "b"} }

\* build_env: the map of the seven variables
BuildEnv(ctx, event) ==
    [n \in TrenchVars |->
        CASE n = "TRENCH_WORKTREE_PATH" -> ctx.worktree_path
          [] n = "TRENCH_WORKTREE_NAME" -> ctx.worktree_name
          [] n = "TRENCH_BRANCH" -> ctx.branch
          [] n = "TRENCH_REPO_NAME" -> ctx.repo_name
          [] n = "TRENCH_REPO_PATH" -> ctx.repo_path
          [] n = "TRENCH_BASE_BRANCH" -> ctx.base_branch
          [] OTHER -> AsStr(event)]

\* environments of the invoking process: maps from names to values; one
\* of them already holds a TRENCH_EVENT of its own
ParentValue(n) ==
    CASE n = "PATH" -> "/bin" [] n = "HOME" -> "/home/u" [] OTHER -> "stale"

ParentEnvs ==
    { [n \in names |-> ParentValue(n)] :
        names \in SUBSET {"PATH", "HOME", "TRENCH_EVENT"} }

\* a child that is given the map alone
ChildEnvironmentCleared(parent, env_vars) == env_vars

\* Command::new("sh") ... .envs(env_vars): the child inherits the
\* environment of the process, with the given variables set in it
ChildEnvironment(parent, env_vars) ==
    [n \in DOMAIN parent \cup DOMAIN env_vars |->
        IF n \in DOMAIN env_vars THEN env_vars[n] ELSE parent[n]]

\* the runner fires the hook of an event: the variables of its commands
HookEnvVars(ctx, event) == BuildEnv(ctx, event)

MaxHookCommands == 2

HookEnvArgs ==
    { [fn |-> "run_hook", event |-> e, ctx |-> c, parent |-> p, commands |-> k] :
        e \in HookEvents, c \in HookEnvContexts, p \in ParentEnvs,
        k \in 1..MaxHookCommands }

Spawned == IF answer = NoAnswer THEN << >> ELSE answer.spawned

\* execute_run_step: the next command of the hook is spawned
SpawnHookCommand ==
    /\ args.fn = "run_hook"
    /\ Len(Spawned) < args.commands
    /\ answer' = [ret |-> "spawned",
                  spawned |-> Append(Spawned,
                      ChildEnvironment(args.parent,
                                       HookEnvVars(args.ctx, args.event)))]
    /\ UNCHANGED << args, hookVars, gitVars, storeVars, cmdVars, envDone,
                    dbVars >>

InitHookEnv ==
    /\ HookQuiet
    /\ WorldAtRest
    /\ args \in HookEnvArgs
    /\ answer = NoAnswer

SpecHookEnv == InitHookEnv /\ [][SpawnHookCommand]_vars

\* C32: every hook command is started with the seven TRENCH_ variables,
\* holding the values of the operation, added to the environment of the
\* invoking process and not replacing it, and TRENCH_EVENT is the name of
\* the lifecycle event that fired the hook.
C32_HookEnvironment ==
    args.fn = "run_hook" =>
        \A i \in 1..Len(Spawned) :
            LET env == Spawned[i] IN
            /\ TrenchVars \subseteq DOMAIN env
            /\ env["TRENCH_WORKTREE_PATH"] = args.ctx.worktree_path
            /\ env["TRENCH_WORKTREE_NAME"] = args.ctx.worktree_name
            /\ env["TRENCH_BRANCH"] = args.ctx.branch
            /\ env["TRENCH_REPO_NAME"] = args.ctx.repo_name
            /\ env["TRENCH_REPO_PATH"] = args.ctx.repo_path
            /\ env["TRENCH_BASE_BRANCH"] = args.ctx.base_branch
            /\ env["TRENCH_EVENT"] = AsStr(args.event)
            /\ DOMAIN env = DOMAIN args.parent \cup TrenchVars
            /\ \A n \in DOMAIN args.parent \ TrenchVars : env[n] = args.parent[n]

\* the second command of a pre_remove hook, started by a process that has
\* PATH, HOME and a TRENCH_EVENT of its own
C32_Witness ==
    /\ args.fn = "run_hook"
    /\ args.event = "PreRemove"
    /\ DOMAIN args.parent = {"PATH", "HOME", "TRENCH_EVENT"}
    /\ Len(Spawned) = 2
    /\ Spawned[2]["PATH"] = "/bin"
    /\ Spawned[2]["TRENCH_EVENT"] = "pre_remove"

\* ------------------------------------------------------------------------
\* The rows and events that create and remove leave in the store
\* ------------------------------------------------------------------------

\* the events of one type recorded for a worktree
EventsOfType(worktree_id, event_type) ==
    { i \in DOMAIN events :
        /\ events[i].worktree_id = Some(worktree_id)
        /\ events[i].event_type = event_type }

\* the create command returned Ok: one row and its event were added
CreateRecorded ==
    LET id == Len(before.worktrees) + 1 IN
    /\ Len(repos) = 1
    /\ worktrees = Append(before.worktrees,
                          NewWorktree(1, cmd.branch, TargetPath(cmd.branch),
                                      Some(cmd.base)))
    /\ events = Append(before.events,
                       [repo_id |-> 1, worktree_id |-> Some(id),
                        event_type |-> "created"])

\* the remove command returned Ok: the row is marked, its event was added
RemoveRecorded ==
    /\ wt_id \in DOMAIN before.worktrees
    /\ before.worktrees[wt_id].branch = cmd.branch
    /\ worktrees = [before.worktrees EXCEPT ![wt_id].removed_at = Some(Now)]
    /\ events = Append(before.events,
                       [repo_id |-> worktrees[wt_id].repo_id,
                        worktree_id |-> Some(wt_id),
                        event_type |-> "removed"])

\* C33: every successful create adds exactly one managed worktree row
\* (branch, path, base branch) and exactly one 'created' event for it, every
\* successful remove sets that row's removed_at and adds exactly one
\* 'removed' event for it; after any sequence of commands each worktree has
\* at most one 'created' and at most one 'removed' event, and a 'removed'
\* event only if its removed_at is set.
C33_RowsAndEvents ==
    /\ (CreateReturned /\ ret = "ok") => CreateRecorded
    /\ (RemoveReturned /\ ret = "ok") => RemoveRecorded
    /\ \A id \in DOMAIN worktrees :
          /\ Cardinality(EventsOfType(id, "created")) <= 1
          /\ Cardinality(EventsOfType(id, "removed")) <= 1
          /\ EventsOfType(id, "removed") # {} => IsSome(worktrees[id].removed_at)

\* a worktree was created and removed, and a second remove has returned
C33_Witness ==
    /\ RemoveReturned
    /\ opsDone = 2
    /\ Len(worktrees) = 1
    /\ EventsOfType(1, "created") # {}
    /\ EventsOfType(1, "removed") # {}
    /\ IsSome(worktrees[1].removed_at)

\* ------------------------------------------------------------------------
\* trench create --dry-run (main.rs run_create, create.rs execute_dry_run)
\* ------------------------------------------------------------------------

\* strings are sequences of characters here
RECURSIVE ReplaceDotDot(_)
\* branch.replace("..", "-")
ReplaceDotDot(s) ==
    IF s = << >> THEN << >>
    ELSE IF Len(s) >= 2 /\ s[1] = "." /\ s[2] = "."
      THEN << "-" >> \o ReplaceDotDot(SubSeq(s, 3, Len(s)))
      ELSE << s[1] >> \o ReplaceDotDot(Tail(s))

RECURSIVE CollapseDashes(_, _)
\* the loop of sanitize_branch: '/', '@', ' ' and '-' become one dash, never
\* two in a row
CollapseDashes(done, s) ==
    IF s = << >> THEN done
    ELSE IF s[1] \in {"/", "@", " ", "-"}
      THEN CollapseDashes(IF done # << >> /\ done[Len(done)] = "-"
                            THEN done ELSE Append(done, "-"), Tail(s))
      ELSE CollapseDashes(Append(done, s[1]), Tail(s))

RECURSIVE TrimDashes(_)
\* trim_matches('-')
TrimDashes(s) ==
    IF s = << >> THEN s
    ELSE IF s[1] = "-" THEN TrimDashes(Tail(s))
    ELSE IF s[Len(s)] = "-" THEN TrimDashes(SubSeq(s, 1, Len(s) - 1))
    ELSE s

\* paths::sanitize_branch
SanitizeBranch(branch) ==
    TrimDashes(CollapseDashes(<< >>, ReplaceDotDot(branch)))

\* the templates of worktrees.root: the default "{{ repo }}/{{ branch |
\* sanitize }}" and "{{ repo }}/{{ branch }}"
Templates == {"sanitized", "plain"}

\* paths::render_worktree_path
RenderWorktreePath(template, repo, branch) ==
    repo \o << "/" >> \o
        (IF template = "sanitized" THEN SanitizeBranch(branch) ELSE branch)

\* Path::join of a relative path
JoinPath(root, relative) == root \o << "/" >> \o relative

\* the directories of the user: ~/.config/trench, ~/.local/share/trench,
\* ~/.worktrees
ConfigDir == << "home", ".config", "trench" >>
DataDir == << "home", ".local", "share", "trench" >>
WorktreeRootDir == << "home", ".worktrees" >>

\* the path of ~/.worktrees as a string
WorktreeRootString == << "~", "/", ".", "w" >>

\* paths::worktree_root(): the path, and the directory is made
WorktreeRoot == [path |-> WorktreeRootString, made |-> {WorktreeRootDir}]

\* paths::worktree_root_path(): the path alone
WorktreeRootPath == [path |-> WorktreeRootString, made |-> {}]

\* paths::config_dir(): ensure_dir makes the directory
ConfigDirMade == {ConfigDir}

\* RepoInfo of discover_repo: the name and the branch of HEAD
RepoInfo == [name |-> << "r" >>, default_branch |-> << "m" >>]

\* from.unwrap_or(&repo_info.default_branch)
BaseOf(from, repo_info) ==
    IF IsSome(from) THEN from[1] ELSE repo_info.default_branch

\* create::execute_dry_run: the plan
ExecuteDryRun(branch, from, worktree_root, template) ==
    [dry_run |-> TRUE,
     branch |-> branch,
     base_branch |-> BaseOf(from, RepoInfo),
     worktree_path |-> JoinPath(worktree_root,
                          RenderWorktreePath(template, RepoInfo.name, branch)),
     repo_name |-> RepoInfo.name]

\* create::execute, lines 108-111 and 126-128: the path, the branch and the
\* base the command creates and records
ExecuteTarget(branch, from, worktree_root, template) ==
    [branch |-> branch,
     base_branch |-> BaseOf(from, RepoInfo),
     worktree_path |-> JoinPath(worktree_root,
                          RenderWorktreePath(template, RepoInfo.name, branch))]

DryRunBranches ==
    { << "a" >>, << "x", "/", "a" >>, << "a", ".", ".", "b" >>,
      << "-", "a", "@", "-", "b" >> }

DryRunArgs ==
    { [fn |-> "run_create", branch |-> b, from |-> f, template |-> t,
       in_repo |-> r, dry_run |-> TRUE] :
        b \in DryRunBranches, f \in {None, Some(<< "b" >>)}, t \in Templates,
        r \in BOOLEAN }

\* run_create with --dry-run: the repository is discovered, the project and
\* the global configuration are loaded, the plan is made and printed
RunCreateDryRun ==
    /\ args.fn = "run_create"
    /\ args.dry_run
    /\ answer = NoAnswer
    /\ before' = Snapshot
    /\ IF ~args.in_repo
         THEN /\ answer' = [ret |-> "NotAGitRepo"]
              /\ fsPaths' = fsPaths
         ELSE /\ fsPaths' = fsPaths \cup ConfigDirMade \cup WorktreeRootPath.made
              /\ answer' = [ret |-> "ok",
                            plan |-> ExecuteDryRun(args.branch, args.from,
                                                   WorktreeRootPath.path,
                                                   args.template)]
    /\ UNCHANGED << args, hookVars, localBranches, remoteRefs, serverBranches,
                    hasOrigin, gitWorktrees, storeVars, cmd, pc, ret, calls,
                    atCall, hooked, wt_id, opsDone, envDone, dbVars >>

InitDryRun ==
    /\ HookQuiet
    /\ localBranches = {"main"}
    /\ hasOrigin = FALSE
    /\ serverBranches = {}
    /\ remoteRefs = {}
    /\ fsPaths \in SUBSET {ConfigDir, DataDir, WorktreeRootDir}
    /\ gitWorktrees = {}
    /\ repos = << >>
    /\ worktrees = << >>
    /\ events = << >>
    /\ cmd = NoCmd
    /\ pc = "idle"
    /\ ret = "none"
    /\ calls = << >>
    /\ before = NoSnapshot
    /\ atCall = NoSnapshot
    /\ hooked = NoHooks
    /\ wt_id = 0
    /\ opsDone = 0
    /\ envDone = 0
    /\ DbQuiet
    /\ args \in DryRunArgs
    /\ answer = NoAnswer

SpecDryRun == InitDryRun /\ [][RunCreateDryRun]_vars

DryRunReturned == args.fn = "run_create" /\ answer # NoAnswer

\* C34: a dry run of create has no side effects: it creates no branch, no
\* worktree, no directory and no store row and runs no hook, and its plan
\* names the worktree path, the branch and the base branch that a real
\* create with the same arguments would use.
C34_AsClaimed ==
    DryRunReturned =>
        /\ Snapshot = before
        /\ hooked = NoHooks /\ HookQuiet
        /\ answer.ret = "ok" =>
             LET real == ExecuteTarget(args.branch, args.from,
                                       WorktreeRoot.path, args.template)
             IN  /\ answer.plan.worktree_path = real.worktree_path
                 /\ answer.plan.branch = real.branch
                 /\ answer.plan.base_branch = real.base_branch

\* ------------------------------------------------------------------------
\* The TUI's navigation stack (tui/mod.rs)
\* ------------------------------------------------------------------------

\* the deepest stack the model lets '?' build
MaxDepth == 4

Screens == {"List", "Detail", "Create", "Help"}

\* key presses: a code and whether CONTROL is held
KeyCodes == {"c", "?", "Esc", "q", "Enter", "n", "x"}

Keys == { [code |-> c, control |-> m] : c \in KeyCodes, m \in BOOLEAN }

NoKey == [code |-> "none", control |-> FALSE]

\* App::new
NewApp == [running |-> TRUE, nav_stack |-> << "List" >>]

\* App::active_screen
ActiveScreen(app) == app.nav_stack[Len(app.nav_stack)]

\* a push that sets the application running
PushScreenRestarting(app, screen) ==
    [running |-> TRUE, nav_stack |-> Append(app.nav_stack, screen)]

\* App::push_screen
PushScreen(app, screen) ==
    [app EXCEPT !.nav_stack = Append(app.nav_stack, screen)]

\* a pop that does not look at the length: Vec::pop of the last screen
PopScreenUnguarded(app) ==
    [app EXCEPT !.nav_stack =
        IF Len(app.nav_stack) > 0
          THEN SubSeq(app.nav_stack, 1, Len(app.nav_stack) - 1)
          ELSE app.nav_stack]

\* App::pop_screen
PopScreen(app) ==
    IF Len(app.nav_stack) > 1
      THEN [app EXCEPT !.nav_stack =
                SubSeq(app.nav_stack, 1, Len(app.nav_stack) - 1)]
      ELSE [app EXCEPT !.running = FALSE]

\* App::handle_list_key
HandleListKey(app, key) ==
    CASE key.code = "Enter" -> PushScreen(app, "Detail")
      [] key.code = "n" -> PushScreen(app, "Create")
      [] OTHER -> app

\* App::handle_screen_key
HandleScreenKey(app, key) ==
    IF app.nav_stack # << >> /\ ActiveScreen(app) = "List"
      THEN HandleListKey(app, key)
      ELSE app

\* App::handle_key_event: the global keys first
HandleKey(app, key) ==
    CASE key.code = "c" /\ key.control -> [app EXCEPT !.running = FALSE]
      [] key.code = "?" -> PushScreen(app, "Help")
      [] key.code \in {"Esc", "q"} -> PopScreen(app)
      [] OTHER -> HandleScreenKey(app, key)

\* a key press reaches the application
HandleKeyEvent(key) ==
    /\ args.fn = "tui"
    /\ Len(HandleKey(answer.app, key).nav_stack) <= MaxDepth
    /\ answer' = [ret |-> "app", app |-> HandleKey(answer.app, key),
                  key |-> key]
    /\ UNCHANGED << args, hookVars, gitVars, storeVars, cmdVars, envDone,
                    dbVars >>

InitTui ==
    /\ HookQuiet
    /\ WorldAtRest
    /\ args = [fn |-> "tui"]
    /\ answer = [ret |-> "app", app |-> NewApp, key |-> NoKey]

SpecTui == InitTui /\ [][\E key \in Keys : HandleKeyEvent(key)]_vars

\* C35: for every sequence of key events handled by the TUI, the navigation
\* stack is never empty and its bottom element is always the List screen.
C35_StackRootedAtList ==
    args.fn = "tui" =>
        /\ answer.app.nav_stack # << >>
        /\ answer.app.nav_stack[1] = "List"

\* Esc on the second screen brought the application back to the list
C35_Witness ==
    /\ args.fn = "tui"
    /\ answer.key.code = "Esc"
    /\ answer.app.running
    /\ answer.app.nav_stack = << "List" >>

\* C36: Esc or q removes exactly the top screen when the navigation stack
\* holds more than one screen, and otherwise stops the application leaving
\* the stack unchanged; once the application has stopped, no key event makes
\* it running again.
C36_PopOrQuit ==
    [][args.fn = "tui" =>
        LET old == answer.app
            new == answer'.app
        IN  /\ answer'.key.code \in {"Esc", "q"} =>
                 IF Len(old.nav_stack) > 1
                   THEN /\ new.nav_stack =
                             SubSeq(old.nav_stack, 1, Len(old.nav_stack) - 1)
                        /\ new.running = old.running
                   ELSE /\ new.nav_stack = old.nav_stack
                        /\ ~new.running
            /\ ~old.running => ~new.running]_vars

\* after Ctrl-C on the third screen, q still took the top screen away and
\* the application stayed stopped
C36_Witness ==
    /\ args.fn = "tui"
    /\ answer.key.code = "q"
    /\ ~answer.app.running
    /\ answer.app.nav_stack = << "List", "Help" >>

\* ------------------------------------------------------------------------
\* Two create commands at once: two processes, one repository, one store
\* ------------------------------------------------------------------------

Procs == {1, 2}

\* the state of the two processes: where each is in create::execute, the
\* id of the repo row and of the worktree row it holds, what it returned
ProcsStarted ==
    [ret |-> "procs",
     at |-> [p \in Procs |-> "start"],
     repo |-> [p \in Procs |-> 0],
     wt |-> [p \in Procs |-> 0],
     out |-> [p \in Procs |-> "none"]]

ProcBranch(p) == args.branch[p]

ProcAt(p, place) == args.fn = "create_twice" /\ answer.at[p] = place

\* execute, 113-116: create_dir_all(parent), then git::create_worktree; the
\* branch is new, the base exists and the target path is free, so the
\* worktree is added
ProcCreateWorktree(p) ==
    /\ ProcAt(p, "start")
    /\ localBranches' = localBranches \cup {ProcBranch(p)}
    /\ fsPaths' = fsPaths \cup {ParentDir, TargetPath(ProcBranch(p))}
    /\ gitWorktrees' = gitWorktrees \cup {ProcBranch(p)}
    /\ answer' = [answer EXCEPT !.at[p] = "get_repo"]
    /\ UNCHANGED << args, hookVars, remoteRefs, serverBranches, hasOrigin,
                    storeVars, cmdVars, envDone, dbVars >>

\* execute, 120: db.get_repo_by_path(repo_path_str)?
ProcGetRepoByPath(p) ==
    /\ ProcAt(p, "get_repo")
    /\ answer' = [answer EXCEPT
                    !.repo[p] = GetRepoByPath(RepoPath),
                    !.at[p] = IF GetRepoByPath(RepoPath) = 0
                                THEN "insert_repo" ELSE "insert_worktree"]
    /\ UNCHANGED << args, hookVars, gitVars, storeVars, cmdVars, envDone,
                    dbVars >>

\* execute, 122: None => db.insert_repo(..)?
ProcInsertRepo(p) ==
    /\ ProcAt(p, "insert_repo")
    /\ repos' = InsertRepoRows(RepoPath)
    /\ answer' = IF InsertRepoOk(RepoPath)
                   THEN [answer EXCEPT !.repo[p] = Len(repos) + 1,
                                       !.at[p] = "insert_worktree"]
                   ELSE [answer EXCEPT !.out[p] = "Db", !.at[p] = "done"]
    /\ UNCHANGED << args, hookVars, gitVars, worktrees, events, cmdVars,
                    envDone, dbVars >>

\* execute, 126-128: db.insert_worktree(repo.id, name, branch, path, base)?
ProcInsertWorktree(p) ==
    /\ ProcAt(p, "insert_worktree")
    /\ worktrees' = InsertWorktreeRows(answer.repo[p], ProcBranch(p),
                                       TargetPath(ProcBranch(p)),
                                       Some("main"))
    /\ answer' = IF InsertWorktreeOk(answer.repo[p], TargetPath(ProcBranch(p)))
                   THEN [answer EXCEPT !.wt[p] = Len(worktrees) + 1,
                                       !.at[p] = "insert_event"]
                   ELSE [answer EXCEPT !.out[p] = "Db", !.at[p] = "done"]
    /\ UNCHANGED << args, hookVars, gitVars, repos, events, cmdVars, envDone,
                    dbVars >>

\* execute, 130-132: db.insert_event(repo.id, Some(wt.id), "created", None)?
\* and Ok(worktree_path)
ProcInsertEvent(p) ==
    /\ ProcAt(p, "insert_event")
    /\ events' = InsertEventRows(answer.repo[p], Some(answer.wt[p]), "created")
    /\ answer' = [answer EXCEPT
                    !.out[p] = IF InsertEventOk(answer.repo[p],
                                                Some(answer.wt[p]))
                                 THEN "ok" ELSE "Db",
                    !.at[p] = "done"]
    /\ UNCHANGED << args, hookVars, gitVars, repos, worktrees, cmdVars,
                    envDone, dbVars >>

ProcNext ==
    \E p \in Procs :
        \/ ProcCreateWorktree(p)
        \/ ProcGetRepoByPath(p)
        \/ ProcInsertRepo(p)
        \/ ProcInsertWorktree(p)
        \/ ProcInsertEvent(p)

\* the repository has its first branch; it is tracked already or not, the
\* parent directory of its worktrees is there or not
InitProcs ==
    /\ HookQuiet
    /\ localBranches = {"main"}
    /\ hasOrigin = FALSE
    /\ serverBranches = {}
    /\ remoteRefs = {}
    /\ fsPaths \in SUBSET {ParentDir}
    /\ gitWorktrees = {}
    /\ repos \in { << >>, << [path |-> RepoPath] >>,
                   << [path |-> OtherRepoPath] >> }
    /\ worktrees = << >>
    /\ events = << >>
    /\ cmd = NoCmd
    /\ pc = "idle"
    /\ ret = "none"
    /\ calls = << >>
    /\ before = NoSnapshot
    /\ atCall = NoSnapshot
    /\ hooked = NoHooks
    /\ wt_id = 0
    /\ opsDone = 0
    /\ envDone = 0
    /\ DbQuiet
    /\ args \in { [fn |-> "create_twice", branch |-> b, tracked |-> t] :
                    b \in { << "a", "b" >>, << "b", "a" >> }, t \in BOOLEAN }
    /\ args.tracked = (GetRepoByPath(RepoPath) # 0)
    /\ answer = ProcsStarted

SpecProcs == InitProcs /\ [][ProcNext]_vars

BothReturned ==
    args.fn = "create_twice" /\ \A p \in Procs : answer.at[p] = "done"

\* the rows and events the store has for the branch of a process
RowsOfBranch(b) == { i \in DOMAIN worktrees : worktrees[i].branch = b }

CreatedEventsOfBranch(b) ==
    { e \in DOMAIN events :
        /\ events[e].event_type = "created"
        /\ \E i \in RowsOfBranch(b) : events[e].worktree_id = Some(i) }

\* C38: when two create commands for different branches of the same, not
\* yet tracked repository run concurrently against the same store, under
\* every interleaving both succeed and the store ends with exactly one Repo
\* row for that repository and one worktree row and one 'created' event per
\* command.
C38_AsClaimed ==
    (BothReturned /\ ~args.tracked) =>
        /\ \A p \in Procs : answer.out[p] = "ok"
        /\ Cardinality({ i \in DOMAIN repos : repos[i].path = RepoPath }) = 1
        /\ \A p \in Procs :
              /\ Cardinality(RowsOfBranch(ProcBranch(p))) = 1
              /\ Cardinality(CreatedEventsOfBranch(ProcBranch(p))) = 1

\* a create command has returned an error
ProcFailed(p) ==
    args.fn = "create_twice" /\ answer.at[p] = "done" /\ answer.out[p] # "ok"

\* C37: the create command is all-or-nothing: whenever it returns an error,
\* for whatever cause including a store write that fails after the Git
\* worktree was created, no new branch, no new worktree directory and no
\* new store row or event remains.
C37_AsClaimed ==
    \A p \in Procs :
        ProcFailed(p) =>
            /\ ProcBranch(p) \notin localBranches
            /\ ProcBranch(p) \notin gitWorktrees
            /\ TargetPath(ProcBranch(p)) \notin fsPaths
            /\ RowsOfBranch(ProcBranch(p)) = {}
            /\ CreatedEventsOfBranch(ProcBranch(p)) = {}

\* ------------------------------------------------------------------------
\* trench remove <identifier> [--force]: the confirmation (main.rs run_remove)
\* ------------------------------------------------------------------------

\* the worktree of branch x/a, tracked under the sanitized name x-a
FeatureBranch == << "x", "/", "a" >>

FeaturePath == << "root", "repo", "x-a" >>

FeatureRow ==
    [repo_id |-> 1, name |-> SanitizeBranch(FeatureBranch),
     branch |-> FeatureBranch, path |-> FeaturePath,
     base_branch |-> Some("main"), managed |-> TRUE, adopted_at |-> None,
     last_accessed |-> None, removed_at |-> None]

\* what the user passes: the branch, the name, two spellings that only
\* sanitizing turns into the name, and the name of no worktree
Identifiers ==
    { FeatureBranch, << "x", "-", "a" >>, << "x", "@", "a" >>,
      << "x", ".", ".", "a" >>, << "b" >> }

\* db.find_worktree_by_identifier(repo_id, identifier) on rows that carry
\* their name: the id of the row of that repo, not removed, whose name or
\* branch is the identifier; 0 if none
FindWorktreeByNameOrBranch(repo_id, identifier) ==
    LET hits == { i \in DOMAIN worktrees :
                    /\ worktrees[i].repo_id = repo_id
                    /\ \/ worktrees[i].name = identifier
                       \/ worktrees[i].branch = identifier
                    /\ ~IsSome(worktrees[i].removed_at) }
    IN  IF hits = {} THEN 0
        ELSE CHOOSE i \in hits : \A j \in hits : i <= j

\* remove::execute, 40-51: the identifier as it is first, then sanitized
ResolveIdentifier(repo_id, identifier) ==
    IF FindWorktreeByNameOrBranch(repo_id, identifier) # 0
      THEN FindWorktreeByNameOrBranch(repo_id, identifier)
    ELSE IF SanitizeBranch(identifier) # identifier
      THEN FindWorktreeByNameOrBranch(repo_id, SanitizeBranch(identifier))
    ELSE 0

\* run_remove, 209: the worktree the prompt is shown for
PromptLookup(repo_id, identifier) ==
    FindWorktreeByNameOrBranch(repo_id, identifier)

\* the line the user types at the prompt; "error" when read_line fails
TypedLines ==
    { << "y", "\n" >>, << "Y", "\n" >>, << " ", "y", " ", "\n" >>,
      << "n", "\n" >>, << "y", "e", "s", "\n" >>, << "\n" >> }

RECURSIVE TrimStart(_)
TrimStart(s) ==
    IF s # << >> /\ s[1] \in {" ", "\n"} THEN TrimStart(Tail(s)) ELSE s

RECURSIVE TrimEnd(_)
TrimEnd(s) ==
    IF s # << >> /\ s[Len(s)] \in {" ", "\n"}
      THEN TrimEnd(SubSeq(s, 1, Len(s) - 1)) ELSE s

\* input.trim().eq_ignore_ascii_case("y")
Confirms(line) == TrimEnd(TrimStart(line)) \in { << "y" >>, << "Y" >> }

RunRemoveArgs ==
    { [fn |-> "run_remove", identifier |-> i, force |-> f, typed |-> t,
       read_ok |-> r] :
        i \in Identifiers, f \in BOOLEAN, t \in TypedLines, r \in BOOLEAN }

\* remove::execute once the worktree is resolved: it is removed from disk,
\* its row is marked and the event is written; or remove_worktree fails
\* before anything is removed
ExecuteRemove(id, prompted) ==
    \E outcome \in {"ok", "Git"} :
        IF outcome = "ok"
          THEN /\ fsPaths' = fsPaths \ {worktrees[id].path}
               /\ gitWorktrees' = gitWorktrees \ {"x-a"}
               /\ worktrees' = [worktrees EXCEPT ![id].removed_at = Some(Now)]
               /\ events' = Append(events, [repo_id |-> worktrees[id].repo_id,
                                            worktree_id |-> Some(id),
                                            event_type |-> "removed"])
               /\ answer' = [ret |-> "removed", prompted |-> prompted,
                             removed |-> id]
          ELSE /\ UNCHANGED << fsPaths, gitWorktrees, worktrees, events >>
               /\ answer' = [ret |-> "Git", prompted |-> prompted,
                             removed |-> 0]

\* run_remove: the prompt unless --force, then remove::execute
RunRemove ==
    /\ args.fn = "run_remove"
    /\ answer = NoAnswer
    /\ LET repo_id == GetRepoByPath(RepoPath)
           shown == IF ~args.force /\ repo_id # 0
                      THEN PromptLookup(repo_id, args.identifier) ELSE 0
           prompted == shown # 0
           target == IF repo_id = 0 THEN 0
                     ELSE ResolveIdentifier(repo_id, args.identifier)
       IN  IF prompted /\ ~(args.read_ok /\ Confirms(args.typed))
             THEN /\ answer' = [ret |-> "cancelled", prompted |-> TRUE,
                                removed |-> 0]
                  /\ UNCHANGED << fsPaths, gitWorktrees, worktrees, events >>
             ELSE IF target = 0
               THEN /\ answer' = [ret |-> IF repo_id = 0 THEN "NotTracked"
                                                       ELSE "NotFound",
                                  prompted |-> prompted, removed |-> 0]
                    /\ UNCHANGED << fsPaths, gitWorktrees, worktrees, events >>
               ELSE ExecuteRemove(target, prompted)
    /\ UNCHANGED << args, hookVars, localBranches, remoteRefs, serverBranches,
                    hasOrigin, repos, cmdVars, envDone, dbVars >>

\* the store tracks the worktree of x/a, or has no row of the repository
InitRunRemove ==
    /\ HookQuiet
    /\ localBranches = {"main"}
    /\ hasOrigin = FALSE
    /\ serverBranches = {}
    /\ remoteRefs = {}
    /\ \/ /\ repos = << [path |-> RepoPath] >>
          /\ worktrees = << FeatureRow >>
          /\ events = << [repo_id |-> 1, worktree_id |-> Some(1),
                          event_type |-> "created"] >>
          /\ fsPaths = {ParentDir, FeaturePath}
          /\ gitWorktrees = {"x-a"}
       \/ /\ repos = << >>
          /\ worktrees = << >>
          /\ events = << >>
          /\ fsPaths = {}
          /\ gitWorktrees = {}
    /\ cmd = NoCmd
    /\ pc = "idle"
    /\ ret = "none"
    /\ calls = << >>
    /\ before = NoSnapshot
    /\ atCall = NoSnapshot
    /\ hooked = NoHooks
    /\ wt_id = 0
    /\ opsDone = 0
    /\ envDone = 0
    /\ DbQuiet
    /\ args \in RunRemoveArgs
    /\ answer = NoAnswer

SpecRunRemove == InitRunRemove /\ [][RunRemove]_vars

\* C39: without --force, the remove command never removes a worktree unless
\* the user answered 'y' to a confirmation prompt for that worktree,
\* whichever form of identifier (name, branch, or a form that only matches
\* after sanitizing) selected it.
C39_AsClaimed ==
    (args.fn = "run_remove" /\ answer # NoAnswer /\ ~args.force
        /\ answer.removed # 0) =>
            /\ answer.prompted
            /\ args.read_ok
            /\ Confirms(args.typed)

\* ------------------------------------------------------------------------
\* Creating a branch again after its worktree was removed
\* ------------------------------------------------------------------------

\* the store has a row for the branch whose removed_at is set: a worktree
\* of the branch was created and later removed by the remove command
CreatedAndRemoved(branch) ==
    \E i \in DOMAIN worktrees :
        /\ worktrees[i].branch = branch
        /\ IsSome(worktrees[i].removed_at)

\* C40: after a worktree for branch B was created and then removed with the
\* remove command, a later create command for B fails and changes neither
\* the repository nor the store; it fails with BranchAlreadyExists as soon
\* as create_worktree has opened the repository and looks the branch up.
C40_BranchOutlivesWorktree ==
    (CreateReturned /\ CreatedAndRemoved(cmd.branch)) =>
        /\ ret # "ok"
        /\ Snapshot = before
        /\ cmd.branch \in localBranches
        /\ "find_branch_local" \in Range(calls) => ret = "BranchAlreadyExists"

\* the third command, a create of the branch whose worktree the second
\* command removed, has returned
C40_Witness ==
    /\ CreateReturned
    /\ opsDone = 2
    /\ CreatedAndRemoved(cmd.branch)
    /\ cmd.branch \notin gitWorktrees
    /\ ret = "BranchAlreadyExists"

====
